---- MODULE Spec2Model ----
(***************************************************************************)
(* A model of carguino / carguino-build:                                   *)
(*   - Preferences (carguino-build/src/prefs.rs): parse, set, unset, get   *)
(*     and the lazily cached placeholder expansion;                        *)
(*   - Recipe, RecipeParams and split_command_line                         *)
(*     (carguino-build/src/config.rs): substitution, tokenization, run;    *)
(*   - Builder::build (carguino-build/src/config.rs): the compile/archive  *)
(*     loop over the registered sources.                                   *)
(*   - get_system_includes and Config::serialize                           *)
(*     (carguino-build/src/config.rs);                                     *)
(*   - create_target_spec (carguino/src/main.rs): the cached target        *)
(*     descriptor, called in sequence and by two builds at once;           *)
(*   - BoardInfo (carguino/src/board.rs): from_fqbn and Display;           *)
(*   - parse_linker_options (carguino/src/main.rs).                        *)
(*                                                                         *)
(* Strings are sequences of one-character strings, so that the regular     *)
(* expressions and the string functions of the code are computed, not      *)
(* assumed.                                                                *)
(***************************************************************************)
EXTENDS Integers, Sequences, FiniteSets, TLC

VARIABLES
    \* ---- Preferences (prefs.rs:9-12) ----
    unexpanded,     \* Preferences.unexpanded : key -> value
    expanded,       \* Preferences.expanded   : None or Some(key -> value)
    rounds,         \* number of substitution rounds run by the last expansion
    changed,        \* number of those rounds that changed the map
    stale,          \* the cache dropped by the last set or unset
    text,           \* the argument of the last Preferences::parse
    op,             \* the last operation of the Preferences component
    ret,            \* what the last operation returned
    \* ---- Recipe (config.rs:276-364) ----
    recipe,         \* Recipe.0, the pattern
    written,        \* the pieces the pattern was written from
    params,         \* the RecipeParams of the call
    command_line,   \* the argument of the last split_command_line
    cmd,            \* what the last split_command_line returned
    output,         \* what command.output() returned in the last Recipe::run
    events,         \* what Recipe::run wrote to stdout and stderr, in order
    runRet,         \* what the last Recipe operation returned
    rop,            \* the last operation of the Recipe component
    \* ---- Builder (config.rs:196-240) ----
    sources,        \* Builder.sources
    lib_name,       \* the argument of Builder::build
    pc,             \* the position of Builder::build
    idx,            \* the index in sources of the source being built
    log,            \* the calls of Config::compile and Config::archive so far
    directives,     \* the lines printed by Builder::build
    buildRet,       \* what Builder::build returned
    \* ---- get_system_includes (config.rs:379-391) ----
    probe,          \* what Command::output() returned for the probe
    probe_lines,    \* the lines the probe wrote to stderr
    system_includes, \* what get_system_includes returned
    iop,            \* the last operation of this component
    \* ---- create_target_spec (carguino/src/main.rs:344-414) ----
    rustc,          \* the installed base compiler: target -> what it prints
    files,          \* the targets directory: file name -> content
    queries,        \* the targets rustc was asked to print, in order
    calls,          \* number of calls of create_target_spec so far
    procs,          \* per process, the position and locals of its call
    \* ---- BoardInfo (carguino/src/board.rs) ----
    fqbn,           \* the argument of the last BoardInfo::from_fqbn
    parsed,         \* what the last from_fqbn returned
    first_parsed,   \* what the from_fqbn before the last one returned
    rendered,       \* what Display wrote for the parsed BoardInfo
    bop,            \* the last operation of this component
    \* ---- Config::serialize (config.rs:41-87) ----
    given,          \* the unexpanded map of the Preferences given to serialize
    document,       \* what Config::serialize returned
    sop,            \* the last operation of this component
    \* ---- parse_linker_options (carguino/src/main.rs:290-342) ----
    linker_recipe,  \* the argument of parse_linker_options
    is_dir,         \* the paths that name an existing directory
    parsed_options, \* what parse_linker_options returned
    lop             \* the last operation of this component

prefsVars == <<unexpanded, expanded, rounds, changed, stale, text, op, ret>>
recipeVars == <<recipe, written, params, command_line, cmd, output, events, runRet, rop>>
buildVars == <<sources, lib_name, pc, idx, log, directives, buildRet>>
includesVars == <<probe, probe_lines, system_includes, iop>>
targetVars == <<rustc, files, queries, calls, procs>>
boardVars == <<fqbn, parsed, first_parsed, rendered, bop>>
serializeVars == <<given, document, sop>>
linkerVars == <<linker_recipe, is_dir, parsed_options, lop>>
toolVars == <<includesVars, targetVars, boardVars, serializeVars, linkerVars>>
vars == <<prefsVars, recipeVars, buildVars, toolVars>>

-----------------------------------------------------------------------------
(* Bounds of the model.                                                    *)

MaxValueLen == 4      \* length of the values of key a in the enumerated maps
MaxTextLen == 6       \* length of the texts given to parse
MaxPieces == 3        \* number of pieces of a recipe pattern
MaxLineLen == 5       \* length of the lines given to split_command_line
MaxStderrLines == 2   \* number of lines a process writes to stderr
MaxSources == 3       \* number of sources registered on a Builder
MaxProbeLines == 4    \* number of lines a probe writes to stderr
MaxCalls == 2         \* number of calls of create_target_spec in sequence
MaxFqbnTail == 5      \* length of what follows a:b: in the enumerated FQBNs
MaxArgs == 3          \* number of argument tokens of a linker recipe

-----------------------------------------------------------------------------
(* Generic helpers.                                                        *)

None == [some |-> FALSE]
Some(x) == [some |-> TRUE, val |-> x]

Min(S) == CHOOSE x \in S : \A y \in S : x <= y

\* All sequences over the set A of length at most n.
SeqsUpTo(A, n) == UNION {[1..k -> A] : k \in 0..n}

\* \s of the regex crate, restricted to the ASCII white space of the model.
IsSpace(c) == c \in {" ", "\t", "\n", "\r"}

\* A left-to-right scan of the positions lo..hi: starting from st, the
\* state is threaded through Step(st, i) for the positions i it has not
\* consumed yet (st.next is the next position to look at).  The range is
\* halved so that the evaluation depth is logarithmic in its length.
RECURSIVE Scan(_, _, _, _)
Scan(Step(_, _), st, lo, hi) ==
    IF lo > hi \/ st.next > hi THEN st
    ELSE IF lo = hi THEN Step(st, lo)
    ELSE LET mid == (lo + hi) \div 2
         IN Scan(Step, Scan(Step, st, lo, mid), mid + 1, hi)

\* The first position j >= from of s with Test(s[j]), Len(s) + 1 if none;
\* s is searched in windows of w, 2w, 4w, ... positions.
RECURSIVE FirstIdxIn(_, _, _, _)
FirstIdxIn(s, from, Test(_), w) ==
    LET C == {j \in from..Min({from + w - 1, Len(s)}) : Test(s[j])}
    IN IF C # {} THEN Min(C)
       ELSE IF from + w > Len(s) THEN Len(s) + 1
       ELSE FirstIdxIn(s, from + w, Test, 2 * w)

FirstIdx(s, from, Test(_)) == FirstIdxIn(s, from, Test, 8)

-----------------------------------------------------------------------------
(* Preferences::expanded, prefs.rs:54-81.                                  *)

MaxRounds == 10

\* The regex \{(\S+?)\} tried at position i of s, where s[i] = "{": the lazy
\* \S+? takes at least one character and stops at the first "}" after it,
\* provided no white space lies in between.  The position of that "}", or 0
\* when there is no match at i.
PlaceholderEnd(s, i) ==
    LET close == FirstIdx(s, i + 2, LAMBDA c : c = "}")
    IN IF close <= Len(s) /\ \A k \in (i + 1)..(close - 1) : ~IsSpace(s[k])
       THEN close ELSE 0

\* REGEX.replace_all(value, |captures| prefs.get(&captures[1]).cloned()
\*     .unwrap_or_else(|| captures[0].to_string())): the leftmost
\* non-overlapping matches, each replaced by the value of the captured key in
\* prefs, or left verbatim when the key is absent.  Replacements are not
\* scanned again.  The text up to the next "{" cannot start a match and is
\* copied in one step.
ReplacePlaceholders(value, prefs) ==
    LET Step(st, i) ==
            LET brace == FirstIdx(value, i, LAMBDA c : c = "{")
                j == PlaceholderEnd(value, i)
            IN IF brace > i
               THEN [out |-> st.out \o SubSeq(value, i, brace - 1), next |-> brace]
               ELSE IF j # 0
               THEN LET name == SubSeq(value, i + 1, j - 1)
                    IN [out |-> st.out \o (IF name \in DOMAIN prefs
                                           THEN prefs[name]
                                           ELSE SubSeq(value, i, j)),
                        next |-> j + 1]
               ELSE [out |-> Append(st.out, value[i]), next |-> i + 1]
    IN Scan(Step, [out |-> <<>>, next |-> 1], 1, Len(value)).out

\* str::replace(from, to), from not empty: the leftmost non-overlapping
\* occurrences of from.  The text up to the next occurrence of the first
\* character of from is copied in one step.
StrReplace(s, from, to) ==
    LET Step(st, i) ==
            LET first == FirstIdx(s, i, LAMBDA c : c = from[1])
            IN IF first > i
               THEN [out |-> st.out \o SubSeq(s, i, first - 1), next |-> first]
               ELSE IF i + Len(from) - 1 <= Len(s)
                       /\ SubSeq(s, i, i + Len(from) - 1) = from
               THEN [out |-> st.out \o to, next |-> i + Len(from)]
               ELSE [out |-> Append(st.out, s[i]), next |-> i + 1]
    IN Scan(Step, [out |-> <<>>, next |-> 1], 1, Len(s)).out

\* A round that rewrites the map in place: one key first, and the others
\* from the map that already holds the new value of that key.
ExpandRoundInPlace(prefs) ==
    IF DOMAIN prefs = {} THEN prefs
    ELSE LET first == CHOOSE k \in DOMAIN prefs : TRUE
             Rewrite(value, map) ==
                 StrReplace(StrReplace(ReplacePlaceholders(value, map),
                                       <<"{", "{">>, <<"{">>),
                            <<"}", "}">>, <<"}">>)
             updated == [prefs EXCEPT ![first] = Rewrite(prefs[first], prefs)]
         IN [key \in DOMAIN prefs |->
                IF key = first THEN updated[first] ELSE Rewrite(prefs[key], updated)]

\* One round of the loop body, prefs.rs:63-70: every value is rewritten from
\* the map as it stood at the start of the round.
ExpandRound(prefs) ==
    [key \in DOMAIN prefs |->
        StrReplace(StrReplace(ReplacePlaceholders(prefs[key], prefs),
                              <<"{", "{">>, <<"{">>),
                   <<"}", "}">>, <<"}">>)]

\* The loop `for _ in 0 .. 10`, prefs.rs:62-75, after n rounds of which c
\* changed the map: ExpandFrom runs the next round, ExpandCompare is the
\* test at its end, where a round that left the map unchanged ends the loop.
RECURSIVE ExpandFrom(_, _, _, _)
RECURSIVE ExpandCompare(_, _, _, _, _)
ExpandCompare(prefs, new_prefs, n, c, bound) ==
    IF prefs = new_prefs
    THEN [prefs |-> prefs, rounds |-> n + 1, changed |-> c]
    ELSE ExpandFrom(new_prefs, n + 1, c + 1, bound)

ExpandFrom(prefs, n, c, bound) ==
    IF n = bound THEN [prefs |-> prefs, rounds |-> n, changed |-> c]
    ELSE ExpandCompare(prefs, ExpandRound(prefs), n, c, bound)

\* The loop with the range `0 ..= 10`.
ExpandLoopInclusive(prefs) == ExpandFrom(prefs, 0, 0, MaxRounds + 1)

ExpandLoop(prefs) == ExpandFrom(prefs, 0, 0, MaxRounds)

\* An expanded() that runs a single round.
ExpandedOnce(unexp, cur) ==
    IF cur.some THEN [fresh |-> FALSE, cache |-> cur]
    ELSE [fresh |-> TRUE, loop |-> ExpandFrom(unexp, 0, 0, 1)]

\* Preferences::expanded(), prefs.rs:54-81, given the cache cur it finds:
\* the cache is kept when there is one, the loop runs when there is none.
Expanded(unexp, cur) ==
    IF cur.some THEN [fresh |-> FALSE, cache |-> cur]
    ELSE [fresh |-> TRUE, loop |-> ExpandLoop(unexp)]

-----------------------------------------------------------------------------
(* Preferences::parse, prefs.rs:19-34.                                     *)

\* str::lines(): the text is cut at every "\n"; a final line without "\n" is
\* a line too, an empty remainder after the last "\n" is not; one "\r" at the
\* end of a line is dropped with the "\n".
Lines(s) ==
    LET StripCr(l) == IF Len(l) > 0 /\ l[Len(l)] = "\r"
                      THEN SubSeq(l, 1, Len(l) - 1) ELSE l
        Step(st, i) ==
            IF s[i] = "\n"
            THEN [out |-> Append(st.out, StripCr(st.cur)), cur |-> <<>>, next |-> i + 1]
            ELSE [out |-> st.out, cur |-> Append(st.cur, s[i]), next |-> i + 1]
        end == Scan(Step, [out |-> <<>>, cur |-> <<>>, next |-> 1], 1, Len(s))
    IN IF end.cur = <<>> THEN end.out ELSE Append(end.out, StripCr(end.cur))

\* line.splitn(2, '='): the pieces before and after the first "=", or the
\* line alone when it holds no "=".
Splitn2(line) ==
    LET eq == FirstIdx(line, 1, LAMBDA c : c = "=")
    IN IF eq > Len(line) THEN <<line>>
       ELSE <<SubSeq(line, 1, eq - 1), SubSeq(line, eq + 1, Len(line))>>

\* The loop of parse over the lines: each line inserts (key, value) into the
\* map; the second splits.next().unwrap() panics on a line without "=".
ParseLines(lines) ==
    LET Step(st, i) ==
            IF st.panic THEN st
            ELSE LET splits == Splitn2(lines[i])
                 IN IF Len(splits) < 2
                    THEN [prefs |-> st.prefs, panic |-> TRUE, next |-> i + 1]
                    ELSE [prefs |-> [k \in DOMAIN st.prefs \cup {splits[1]} |->
                                        IF k = splits[1] THEN splits[2] ELSE st.prefs[k]],
                          panic |-> FALSE, next |-> i + 1]
    IN Scan(Step, [prefs |-> <<>>, panic |-> FALSE, next |-> 1], 1, Len(lines))

-----------------------------------------------------------------------------
(* The components at rest.                                                 *)

Unit == [tag |-> "unit"]
Panic == [tag |-> "panic"]

EmptyMap == <<>>

\* #[derive(Default)] struct RecipeParams, config.rs:326-333.
RecipeParamsDefault ==
    [source_file |-> <<>>, object_file |-> <<>>, object_files |-> <<>>,
     archive_file |-> <<>>, includes |-> <<>>]

\* No Preferences operation has run.
PrefsIdle ==
    /\ unexpanded = EmptyMap
    /\ expanded = None
    /\ rounds = 0
    /\ changed = 0
    /\ stale = None
    /\ text = <<>>
    /\ op = "new"
    /\ ret = Unit

\* No Recipe operation has run.
RecipeIdle ==
    /\ recipe = <<>>
    /\ written = <<>>
    /\ params = RecipeParamsDefault
    /\ command_line = <<>>
    /\ cmd = Unit
    /\ output = Unit
    /\ events = <<>>
    /\ runRet = Unit
    /\ rop = "new"

\* Config::builder(), config.rs:177-184: no source registered, build not
\* called.
BuilderNew ==
    /\ sources = <<>>
    /\ lib_name = <<>>
    /\ pc = "setup"
    /\ idx = 0
    /\ log = <<>>
    /\ directives = <<>>
    /\ buildRet = Unit

\* get_system_includes has not been called.
IncludesIdle ==
    /\ probe = Unit
    /\ probe_lines = <<>>
    /\ system_includes = <<>>
    /\ iop = "new"

\* #[derive(Default)] struct LinkerOptions, carguino/src/main.rs:280-288.
LinkerOptionsDefault ==
    [command |-> <<>>, script |-> None, specs |-> <<>>,
     library_search_path |-> <<>>, libraries |-> <<>>, platform_options |-> <<>>]

\* A process that has not called create_target_spec.
IdleProc ==
    [pc |-> "idle", arch |-> <<>>, cpu |-> <<>>, board |-> None,
     linker_options |-> LinkerOptionsDefault, target |-> <<>>,
     spec_name |-> <<>>, bytes |-> <<>>, pos |-> 0, ret |-> Unit]

\* The processes that may run a build at the same time.
Procs == 1..2

\* No build has called create_target_spec: the targets directory is empty
\* and rustc has not been run.
TargetIdle ==
    /\ rustc = <<>>
    /\ files = <<>>
    /\ queries = <<>>
    /\ calls = 0
    /\ procs = [p \in Procs |-> IdleProc]

\* BoardInfo::from_fqbn has not been called.
BoardIdle ==
    /\ fqbn = <<>>
    /\ parsed = Unit
    /\ first_parsed = Unit
    /\ rendered = None
    /\ bop = "new"

\* Config::serialize has not been called.
SerializeIdle ==
    /\ given = EmptyMap
    /\ document = Unit
    /\ sop = "new"

\* parse_linker_options has not been called.
LinkerIdle ==
    /\ linker_recipe = <<>>
    /\ is_dir = {}
    /\ parsed_options = Unit
    /\ lop = "new"

\* The components of the later sections at rest.
ToolIdle ==
    /\ IncludesIdle
    /\ TargetIdle
    /\ BoardIdle
    /\ SerializeIdle
    /\ LinkerIdle

-----------------------------------------------------------------------------
(* The operations of a Preferences value.                                  *)

Running == ret # Panic

\* Preferences::parse(string), prefs.rs:19-34.
Parse(string) ==
    /\ Running
    /\ LET r == ParseLines(Lines(string))
       IN /\ text' = string
          /\ op' = "parse"
          /\ rounds' = 0
          /\ changed' = 0
          /\ stale' = None
          /\ IF r.panic
             THEN ret' = Panic /\ UNCHANGED <<unexpanded, expanded>>
             ELSE ret' = Unit /\ unexpanded' = r.prefs /\ expanded' = None
    /\ UNCHANGED <<recipeVars, buildVars, toolVars>>

\* A set that forgets `self.expanded.borrow_mut().take()`.
SetKeepCache(key, value) ==
    /\ Running
    /\ unexpanded' = [k \in DOMAIN unexpanded \cup {key} |->
                         IF k = key THEN value ELSE unexpanded[k]]
    /\ stale' = expanded
    /\ op' = "set"
    /\ ret' = Unit
    /\ UNCHANGED <<expanded, rounds, changed, text>>
    /\ UNCHANGED <<recipeVars, buildVars, toolVars>>

\* Preferences::set(key, value), prefs.rs:36-39.
Set(key, value) ==
    /\ Running
    /\ unexpanded' = [k \in DOMAIN unexpanded \cup {key} |->
                         IF k = key THEN value ELSE unexpanded[k]]
    /\ expanded' = None
    /\ stale' = expanded
    /\ op' = "set"
    /\ ret' = Unit
    /\ UNCHANGED <<rounds, changed, text>>
    /\ UNCHANGED <<recipeVars, buildVars, toolVars>>

\* Preferences::unset(key), prefs.rs:41-44.
Unset(key) ==
    /\ Running
    /\ unexpanded' = [k \in DOMAIN unexpanded \ {key} |-> unexpanded[k]]
    /\ expanded' = None
    /\ stale' = expanded
    /\ op' = "unset"
    /\ ret' = Unit
    /\ UNCHANGED <<rounds, changed, text>>
    /\ UNCHANGED <<recipeVars, buildVars, toolVars>>

\* Preferences::get::<String>(key), prefs.rs:50-52: the expansion is computed
\* and cached when the cache is empty; String::from_str never fails.
Get(key) ==
    /\ Running
    /\ \E e \in {Expanded(unexpanded, expanded)} :
          \E map \in {IF e.fresh THEN e.loop.prefs ELSE e.cache.val} :
              /\ expanded' = Some(map)
              /\ rounds' = IF e.fresh THEN e.loop.rounds ELSE rounds
              /\ changed' = IF e.fresh THEN e.loop.changed ELSE changed
              /\ ret' = IF key \in DOMAIN map
                        THEN [tag |-> "some", key |-> key, val |-> map[key]]
                        ELSE [tag |-> "none", key |-> key]
    /\ op' = "get"
    /\ UNCHANGED <<unexpanded, stale, text>>
    /\ UNCHANGED <<recipeVars, buildVars, toolVars>>

-----------------------------------------------------------------------------
(* Inputs of the expansion.                                                *)

KeyA == <<"a">>
KeyB == <<"b">>

ValueChars == {"{", "}", "a", "b"}

\* Values of the second key of an enumerated map.
OtherValues == { <<"{", "a", "}">>, <<"{", "b", "}">>, <<"b">>,
                 <<"{", "{", "a", "}", "}">> }

\* Key a with every value of at most MaxValueLen characters, key b absent or
\* with one of OtherValues.
SmallMaps ==
    {(KeyA :> va) : va \in SeqsUpTo(ValueChars, MaxValueLen)}
    \cup {(KeyA :> va) @@ (KeyB :> vb) :
             va \in SeqsUpTo(ValueChars, MaxValueLen), vb \in OtherValues}

\* A probe key p whose value is an identifier in doubled braces, next to
\* keys a and b that are absent or hold a plain value.
KeyP == <<"p">>
Identifiers == {<<"a">>, <<"b">>, <<"x">>, <<"a", "b">>}
Escaped(id) == <<"{", "{">> \o id \o <<"}", "}">>
PlainValues == {<<>>, <<"x">>, <<"b">>}
EscapeMaps ==
    {(KeyP :> Escaped(id)) @@ [k \in ks |-> v] :
        id \in Identifiers, ks \in SUBSET {KeyA, KeyB}, v \in PlainValues}

ExpandInputs == SmallMaps \cup EscapeMaps

\* ---- The expansion as a function of the unexpanded map ----
InitExpand ==
    /\ unexpanded \in ExpandInputs
    /\ expanded = None
    /\ rounds = 0
    /\ changed = 0
    /\ stale = None
    /\ text = <<>>
    /\ op = "new"
    /\ ret = Unit
    /\ RecipeIdle
    /\ BuilderNew
    /\ ToolIdle

NextExpand == Get(KeyA)

SpecExpand == InitExpand /\ [][NextExpand]_vars

-----------------------------------------------------------------------------
(* A Preferences value under parse, set, unset and get.                    *)

PrefKeys == {KeyA, KeyB}
PrefValues == { <<"x">>, <<"y">>, <<"{", "a", "}">>, <<"{", "b", "}">> }
PrefTexts == { <<"a", "=", "x">>,
               <<"a", "=", "{", "b", "}", "\n", "b", "=", "y">>,
               <<"b">> }

\* Preferences::new(), prefs.rs:15-17.
InitPrefs ==
    /\ unexpanded = EmptyMap
    /\ expanded = None
    /\ rounds = 0
    /\ changed = 0
    /\ stale = None
    /\ text = <<>>
    /\ op = "new"
    /\ ret = Unit
    /\ RecipeIdle
    /\ BuilderNew
    /\ ToolIdle

NextPrefs ==
    \/ \E string \in PrefTexts : Parse(string)
    \/ \E key \in PrefKeys, value \in PrefValues : Set(key, value)
    \/ \E key \in PrefKeys : Unset(key)
    \/ \E key \in PrefKeys : Get(key)

SpecPrefs == InitPrefs /\ [][NextPrefs]_vars

\* ---- Preferences::parse as a function of the text ----
TextChars == {"a", "b", "=", "\n"}
Texts == SeqsUpTo(TextChars, MaxTextLen)

InitParse ==
    /\ unexpanded = EmptyMap
    /\ expanded = None
    /\ rounds = 0
    /\ changed = 0
    /\ stale = None
    /\ text \in Texts
    /\ op = "new"
    /\ ret = Unit
    /\ RecipeIdle
    /\ BuilderNew
    /\ ToolIdle

NextParse == op = "new" /\ Parse(text)

SpecParse == InitParse /\ [][NextParse]_vars

-----------------------------------------------------------------------------
(* Recipe and RecipeParams, config.rs:276-346.                             *)

\* \w of the regex crate, restricted to ASCII.
WordChars ==
    { "a", "b", "c", "d", "e", "f", "g", "h", "i", "j", "k", "l", "m",
      "n", "o", "p", "q", "r", "s", "t", "u", "v", "w", "x", "y", "z",
      "A", "B", "C", "D", "E", "F", "G", "H", "I", "J", "K", "L", "M",
      "N", "O", "P", "Q", "R", "S", "T", "U", "V", "W", "X", "Y", "Z",
      "0", "1", "2", "3", "4", "5", "6", "7", "8", "9", "_" }

IsWord(c) == c \in WordChars

\* The names matched by RecipeParams::substitute.
SourceFileName == <<"s", "o", "u", "r", "c", "e", "_", "f", "i", "l", "e">>
ObjectFileName == <<"o", "b", "j", "e", "c", "t", "_", "f", "i", "l", "e">>
ObjectFilesName == <<"o", "b", "j", "e", "c", "t", "_", "f", "i", "l", "e", "s">>
ArchiveFileName == <<"a", "r", "c", "h", "i", "v", "e", "_", "f", "i", "l", "e">>
IncludesName == <<"i", "n", "c", "l", "u", "d", "e", "s">>

\* A RecipeParams::substitute that lacks the "object_files" arm.
RecipeParamsSubstituteNoList(self, pattern) ==
    CASE pattern = SourceFileName -> self.source_file
      [] pattern = ObjectFileName -> self.object_file
      [] pattern = ArchiveFileName -> self.archive_file
      [] pattern = IncludesName -> self.includes
      [] OTHER -> pattern

\* RecipeParams::substitute(&self, pattern), config.rs:336-345.
RecipeParamsSubstitute(self, pattern) ==
    CASE pattern = SourceFileName -> self.source_file
      [] pattern = ObjectFileName -> self.object_file
      [] pattern = ObjectFilesName -> self.object_files
      [] pattern = ArchiveFileName -> self.archive_file
      [] pattern = IncludesName -> self.includes
      [] OTHER -> pattern

\* REGEX.replace_all(&self.0, |captures| params.substitute(&captures[1]))
\* with the regex %(\w+), config.rs:290-296: a "%" followed by at least one
\* word character matches together with the longest run of word characters
\* after it; a match is replaced by the substitute of the run and the
\* replacement is not scanned again.
RecipeExpand(pattern, self) ==
    LET Step(st, i) ==
            LET percent == FirstIdx(pattern, i, LAMBDA c : c = "%")
                stop == FirstIdx(pattern, i + 1, LAMBDA c : ~IsWord(c))
            IN IF percent > i
               THEN [out |-> st.out \o SubSeq(pattern, i, percent - 1), next |-> percent]
               ELSE IF stop > i + 1
               THEN [out |-> st.out \o RecipeParamsSubstitute(self, SubSeq(pattern, i + 1, stop - 1)),
                     next |-> stop]
               ELSE [out |-> Append(st.out, pattern[i]), next |-> i + 1]
    IN Scan(Step, [out |-> <<>>, next |-> 1], 1, Len(pattern)).out

-----------------------------------------------------------------------------
(* split_command_line, config.rs:348-364.                                  *)

\* A quoted group whose (.*) is greedy: it ends at the last quote it can
\* reach.
QuotedEndGreedy(s, q) ==
    LET nl == FirstIdx(s, q + 1, LAMBDA c : c = "\n")
        C == {j \in (q + 1)..(nl - 1) : s[j] = s[q]}
    IN IF C # {} THEN CHOOSE j \in C : \A k \in C : k <= j ELSE 0

\* The quoted group '(.*?)' or "(.*?)" tried with its opening quote at q:
\* the lazy .*? stops at the first quote equal to s[q], and "." does not
\* match "\n".  The position of the closing quote, or 0 when there is none.
QuotedEnd(s, q) ==
    LET nl == FirstIdx(s, q + 1, LAMBDA c : c = "\n")
        C == {j \in (q + 1)..(nl - 1) : s[j] = s[q]}
    IN IF C # {} THEN Min(C) ELSE 0

\* The regex \s*(?:'(.*?)')|(?:"(.*?)")|(\S+) tried at position p.  The
\* alternation binds weaker than the concatenation, so that the alternatives
\* are \s*'(.*?)' and "(.*?)" and \S+; the first one that matches at p is
\* taken (leftmost-first).  The greedy \s* gives nothing back that could be
\* an opening quote.
MatchAt(s, p) ==
    LET q == FirstIdx(s, p, LAMBDA c : ~IsSpace(c))
        e1 == IF q <= Len(s) /\ s[q] = "'" THEN QuotedEnd(s, q) ELSE 0
        e2 == IF s[p] = "\"" THEN QuotedEnd(s, p) ELSE 0
        e3 == FirstIdx(s, p, IsSpace) - 1
    IN IF e1 # 0
       THEN [ok |-> TRUE, group |-> 1, text |-> SubSeq(s, q + 1, e1 - 1), end |-> e1]
       ELSE IF e2 # 0
       THEN [ok |-> TRUE, group |-> 2, text |-> SubSeq(s, p + 1, e2 - 1), end |-> e2]
       ELSE IF e3 >= p
       THEN [ok |-> TRUE, group |-> 3, text |-> SubSeq(s, p, e3), end |-> e3]
       ELSE [ok |-> FALSE]

\* REGEX.captures_iter(line): the successive leftmost matches, each search
\* starting where the previous match ended; every match yields its first
\* participating group.
Parts(line) ==
    LET Step(st, i) ==
            LET m == MatchAt(line, i)
            IN IF m.ok
               THEN [parts |-> Append(st.parts, m.text), next |-> m.end + 1]
               ELSE [parts |-> st.parts, next |-> i + 1]
    IN Scan(Step, [parts |-> <<>>, next |-> 1], 1, Len(line)).parts

\* split_command_line(line): parts.next().unwrap() panics when the line has
\* no part.
SplitCommandLine(line) ==
    LET parts == Parts(line)
    IN IF parts = <<>> THEN Panic
       ELSE [tag |-> "ok", command |-> Head(parts), args |-> Tail(parts)]

-----------------------------------------------------------------------------
(* Recipe::run, config.rs:301-323.                                         *)

\* s.split(sep): the pieces of s between the occurrences of sep.
SplitOn(s, sep) ==
    LET Step(st, i) ==
            IF s[i] = sep
            THEN [out |-> Append(st.out, st.cur), cur |-> <<>>, next |-> i + 1]
            ELSE [out |-> st.out, cur |-> Append(st.cur, s[i]), next |-> i + 1]
        end == Scan(Step, [out |-> <<>>, cur |-> <<>>, next |-> 1], 1, Len(s))
    IN Append(end.out, end.cur)

\* Path::file_name(): the last component of the path when it is a normal
\* one; empty components and "." are not components, and a path that ends
\* in ".." or has no component has no file name.
FileName(path) ==
    LET comps == SelectSeq(SplitOn(path, "/"), LAMBDA c : c # <<>> /\ c # <<".">>)
    IN IF comps = <<>> \/ comps[Len(comps)] = <<".", ".">> THEN None
       ELSE Some(comps[Len(comps)])

Digit(d) ==
    CASE d = 0 -> "0" [] d = 1 -> "1" [] d = 2 -> "2" [] d = 3 -> "3"
      [] d = 4 -> "4" [] d = 5 -> "5" [] d = 6 -> "6" [] d = 7 -> "7"
      [] d = 8 -> "8" [] d = 9 -> "9"

RECURSIVE Digits(_)
Digits(n) == IF n < 10 THEN <<Digit(n)>> ELSE Append(Digits(n \div 10), Digit(n % 10))

\* i32::to_string().
Decimal(n) == IF n < 0 THEN <<"-">> \o Digits(0 - n) ELSE Digits(n)

\* str::contains(sub).
Contains(s, sub) ==
    \E i \in 1..(Len(s) - Len(sub) + 1) : SubSeq(s, i, i + Len(sub) - 1) = sub

WarningMark == <<"w", "a", "r", "n", "i", "n", "g", ":">>
CargoWarning == <<"c", "a", "r", "g", "o", ":", "w", "a", "r", "n", "i", "n", "g", "=">>
UnableToStart ==
    <<"U", "n", "a", "b", "l", "e", " ", "t", "o", " ", "s", "t", "a", "r", "t", " ",
      "p", "r", "o", "c", "e", "s", "s">>
ProcessOpen == <<"P", "r", "o", "c", "e", "s", "s", " ", "'">>
ProcessExited ==
    <<"'", " ", "e", "x", "i", "t", "e", "d", " ", "w", "i", "t", "h", " ",
      "c", "o", "d", "e", " ">>
NoCode == <<"<", "n", "o", "n", "e", ">">>

\* The message of ErrorKind::Process, error.rs:9-10, which shows the whole
\* path of the command.
ProcessMessagePath(command_path, status) ==
    ProcessOpen \o command_path \o ProcessExited
        \o (IF status.some THEN Decimal(status.val) ELSE NoCode)

\* format!("Process '{}' exited with code {}", ...), config.rs:320-321.
ProcessMessage(command_path, status) ==
    ProcessOpen \o FileName(command_path).val \o ProcessExited
        \o (IF status.some THEN Decimal(status.val) ELSE NoCode)

\* ExitStatus::success().
Success(status) == status = Some(0)

\* The lines of the captured stderr that contain "warning:", each printed as
\* a cargo:warning directive, config.rs:312-315.
Warnings(stderr) ==
    LET found == SelectSeq(Lines(stderr), LAMBDA l : Contains(l, WarningMark))
    IN [i \in 1..Len(found) |-> [stream |-> "stdout", text |-> CargoWarning \o found[i]]]

Err(msg) == [tag |-> "err", kind |-> "Msg", msg |-> msg]

\* Recipe::substitute(params) on its own, config.rs:289-299.
RecipeSubstitute ==
    /\ rop = "new"
    /\ command_line' = RecipeExpand(recipe, params)
    /\ cmd' = SplitCommandLine(command_line')
    /\ rop' = "substitute"
    /\ UNCHANGED <<recipe, written, params, output, events, runRet>>
    /\ UNCHANGED <<prefsVars, buildVars, toolVars>>

\* split_command_line(line) on its own, config.rs:348-364.
Split ==
    /\ rop = "new"
    /\ cmd' = SplitCommandLine(command_line)
    /\ rop' = "split"
    /\ UNCHANGED <<recipe, written, params, command_line, output, events, runRet>>
    /\ UNCHANGED <<prefsVars, buildVars, toolVars>>

\* Recipe::run(params), config.rs:301-323, where out is what
\* command.output() produces: the start fails, or the process runs and exits
\* with a status.  A path without a file name cannot be executed, so that
\* such a command never starts.
Run(out) ==
    /\ rop = "new"
    /\ command_line' = RecipeExpand(recipe, params)
    /\ cmd' = SplitCommandLine(command_line')
    /\ rop' = "run"
    /\ IF cmd' = Panic
       THEN /\ runRet' = Panic
            /\ UNCHANGED <<output, events>>
       ELSE LET shown == [stream |-> "stdout", command |-> cmd'.command, args |-> cmd'.args]
            IN /\ out.started => FileName(cmd'.command).some
               /\ output' = out
               /\ IF ~out.started
                  THEN /\ events' = <<shown>>
                       /\ runRet' = Err(UnableToStart)
                  ELSE IF Success(out.status)
                  THEN /\ events' = <<shown>> \o Warnings(out.stderr)
                       /\ runRet' = [tag |-> "ok", output |-> out]
                  ELSE /\ events' = <<shown, [stream |-> "stderr", bytes |-> out.stderr]>>
                       /\ runRet' = Err(ProcessMessage(cmd'.command, out.status))
    /\ UNCHANGED <<recipe, written, params>>
    /\ UNCHANGED <<prefsVars, buildVars, toolVars>>

-----------------------------------------------------------------------------
(* Inputs of the Recipe component.                                         *)

\* A pattern is written as a sequence of pieces: a placeholder "%word", or a
\* literal text.
Word(w) == [word |-> TRUE, text |-> w]
Lit(t) == [word |-> FALSE, text |-> t]

RECURSIVE Flatten(_)
Flatten(ps) ==
    IF ps = <<>> THEN <<>>
    ELSE (IF Head(ps).word THEN <<"%">> \o Head(ps).text ELSE Head(ps).text)
             \o Flatten(Tail(ps))

UnknownFlag == <<"u", "n", "k", "n", "o", "w", "n", "_", "f", "l", "a", "g">>
Arrow == <<" ", "-", ">", " ">>

\* The literal pieces do not start with a word character, so that a
\* placeholder ends where its piece ends.
Pieces ==
    { Word(SourceFileName), Word(ObjectFileName), Word(ObjectFilesName),
      Word(ArchiveFileName), Word(IncludesName), Word(UnknownFlag), Word(<<"x">>),
      Lit(<<" ">>), Lit(Arrow), Lit(<<"%">>) }

PieceSeqs == SeqsUpTo(Pieces, MaxPieces)

ExampleParams ==
    [RecipeParamsDefault EXCEPT !.source_file = <<"a", ".", "c">>,
                                !.object_file = <<"a", ".", "o">>]
FullParams ==
    [source_file |-> <<"a", ".", "c">>,
     object_file |-> <<"a", ".", "o">>,
     object_files |-> <<"b", ".", "o", " ", "c", ".", "o">>,
     archive_file |-> <<"l", "i", "b", "x", ".", "a">>,
     includes |-> <<" ", "\"", "-", "I", "c", "%", "x", "\"">>]
ParamSets == {RecipeParamsDefault, ExampleParams, FullParams}

\* ---- Recipe::substitute as a function of the pattern and the params ----
InitSubstitute ==
    /\ written \in PieceSeqs
    /\ recipe = Flatten(written)
    /\ params \in ParamSets
    /\ command_line = <<>>
    /\ cmd = Unit
    /\ output = Unit
    /\ events = <<>>
    /\ runRet = Unit
    /\ rop = "new"
    /\ PrefsIdle
    /\ BuilderNew
    /\ ToolIdle

NextSubstitute == RecipeSubstitute

SpecSubstitute == InitSubstitute /\ [][NextSubstitute]_vars

\* ---- split_command_line as a function of the line ----
LineChars == {"a", " ", "'", "\""}
ExampleLine ==
    <<"f", "o", "o", " ", "\"", "b", "a", "r", " ", "b", "a", "z", "\"", " ",
      "'", "q", "u", "x", "'">>
CommandLines == SeqsUpTo(LineChars, MaxLineLen) \cup {ExampleLine}

InitSplit ==
    /\ recipe = <<>>
    /\ written = <<>>
    /\ params = RecipeParamsDefault
    /\ command_line \in CommandLines
    /\ cmd = Unit
    /\ output = Unit
    /\ events = <<>>
    /\ runRet = Unit
    /\ rop = "new"
    /\ PrefsIdle
    /\ BuilderNew
    /\ ToolIdle

NextSplit == Split

SpecSplit == InitSplit /\ [][NextSplit]_vars

\* ---- Recipe::run under every outcome of the process ----
RunPatterns ==
    { <<Lit(<<"g", "c", "c", " ">>), Word(SourceFileName),
        Lit(<<" ", "-", "o", " ">>), Word(ObjectFileName)>>,
      <<Lit(<<"b", "i", "n", "/", "a", "r", " ", "r", "c", "s", " ">>),
        Word(ArchiveFileName), Lit(<<" ">>), Word(ObjectFileName)>>,
      <<Lit(<<".", ".">>)>>,
      <<Word(IncludesName)>> }

ExitCodes == {0, 1, 101, -1}
Statuses == {None} \cup {Some(code) : code \in ExitCodes}

StderrLines ==
    { <<"w", "a", "r", "n", "i", "n", "g", ":", " ", "w">>,
      <<"e", "r", "r", "o", "r", ":", " ", "e">>,
      <<"n", "o", "t", "e">> }

RECURSIVE JoinLines(_)
JoinLines(ls) ==
    IF ls = <<>> THEN <<>> ELSE Head(ls) \o <<"\n">> \o JoinLines(Tail(ls))

StderrTexts == {JoinLines(ls) : ls \in SeqsUpTo(StderrLines, MaxStderrLines)}
StdoutTexts == {<<>>, <<"o", "k", "\n">>}

Outputs ==
    {[started |-> FALSE]}
    \cup {[started |-> TRUE, status |-> s, stdout |-> o, stderr |-> e] :
             s \in Statuses, o \in StdoutTexts, e \in StderrTexts}

InitRun ==
    /\ written \in RunPatterns
    /\ recipe = Flatten(written)
    /\ params \in ParamSets
    /\ command_line = <<>>
    /\ cmd = Unit
    /\ output = Unit
    /\ events = <<>>
    /\ runRet = Unit
    /\ rop = "new"
    /\ PrefsIdle
    /\ BuilderNew
    /\ ToolIdle

NextRun == \E out \in Outputs : Run(out)

SpecRun == InitRun /\ [][NextRun]_vars

-----------------------------------------------------------------------------
(* Builder and Config::compile, config.rs:109-138, 196-240, 366-416.       *)

\* A path is a directory, a file stem and an extension ("" when the file
\* name has none); the stem ".." stands for a path that ends in "..".
Path(dir, stem, ext) == [dir |-> dir, stem |-> stem, ext |-> ext]

\* The regular files of the file system while the build runs.
Files ==
    { Path("src", "a", "c"), Path("src", "b", "cpp"), Path("lib", "a", "cpp"),
      Path("src", "n", "txt"),
      Path("core", "w", "c"), Path("core", "m", "cpp"), Path("core", "d", "txt"),
      Path("variant", "v", "S") }

CorePath == "core"
VariantPath == "variant"

\* env::var_os("OUT_DIR"), config.rs:182.
TargetDir == "out"

IsFile(path) == path \in Files

\* is_asm_source, is_c_source, is_cpp_source, is_source, config.rs:393-416.
IsAsmSource(path) == IsFile(path) /\ path.ext \in {"s", "S", "sx"}
IsCSource(path) == IsFile(path) /\ path.ext \in {"c", "i"}
IsCppSource(path) ==
    IsFile(path) /\ path.ext \in {"cc", "cp", "cxx", "cpp", "CPP", "c++", "C", "ii"}
IsSource(path) == IsAsmSource(path) \/ IsCSource(path) \/ IsCppSource(path)

\* Path::file_name() of a source path.
SourceFileNameOf(path) ==
    IF path.stem = ".." THEN None ELSE Some([stem |-> path.stem, ext |-> path.ext])

\* target_dir.join(&lib_name).join(file_name).with_extension("o"),
\* config.rs:229.
ObjectFile(name, source_file) ==
    Path(<<TargetDir, name>>, SourceFileNameOf(source_file).val.stem, "o")

\* target_dir.join(format!("lib{}.a", lib_name)), config.rs:231.
ArchiveFile(name) == Path(TargetDir, <<"lib", name>>, "a")

\* The recipe Config::compile selects, config.rs:110-115; None stands for
\* the arm marked unreachable.
CompileRecipe(source_file) ==
    IF IsCSource(source_file) THEN Some("c_compiler")
    ELSE IF IsCppSource(source_file) THEN Some("cpp_compiler")
    ELSE IF IsAsmSource(source_file) THEN Some("assembler")
    ELSE None

\* All orders in which read_dir can list the set S of entries.
Orders(S) ==
    {order \in [1..Cardinality(S) -> S] :
        \A i, j \in 1..Cardinality(S) : order[i] = order[j] => i = j}

\* The sources collect_sources finds below dir, config.rs:366-377.
Collected(dir) == {path \in Files : path.dir = dir /\ IsSource(path)}

Ok == [tag |-> "ok"]

\* The two directives printed by a build that succeeded, config.rs:235-236.
LinkDirectives(name) ==
    << [directive |-> "cargo:rustc-link-search", native |-> TargetDir],
       [directive |-> "cargo:rustc-link-lib", static |-> name] >>

\* Builder::source(source), config.rs:204-207.
Source(source) ==
    /\ pc = "setup"
    /\ Len(sources) < MaxSources
    /\ sources' = Append(sources, source)
    /\ UNCHANGED <<lib_name, pc, idx, log, directives, buildRet>>
    /\ UNCHANGED <<prefsVars, recipeVars, toolVars>>

\* Builder::core_sources(), config.rs:209-213: the sources below the core
\* path, then those below the variant path, each in the order of read_dir.
CoreSources ==
    /\ pc = "setup"
    /\ \E core \in Orders(Collected(CorePath)), variant \in Orders(Collected(VariantPath)) :
          /\ Len(sources) + Len(core) + Len(variant) <= MaxSources
          /\ sources' = sources \o core \o variant
    /\ UNCHANGED <<lib_name, pc, idx, log, directives, buildRet>>
    /\ UNCHANGED <<prefsVars, recipeVars, toolVars>>

\* Builder::build(lib_name) up to the first source, config.rs:225-228; with
\* no source the loop is empty and the directives are printed at once.
Build(name) ==
    /\ pc = "setup"
    /\ lib_name' = name
    /\ IF sources = <<>>
       THEN /\ pc' = "done"
            /\ directives' = LinkDirectives(name)
            /\ buildRet' = Ok
            /\ UNCHANGED idx
       ELSE /\ pc' = "compile"
            /\ idx' = 1
            /\ UNCHANGED <<directives, buildRet>>
    /\ UNCHANGED <<sources, log>>
    /\ UNCHANGED <<prefsVars, recipeVars, toolVars>>

\* A compile step whose error is dropped instead of returned.
BuildCompileIgnoreError(outcome) ==
    /\ pc = "compile"
    /\ LET source_file == sources[idx]
       IN IF ~SourceFileNameOf(source_file).some
          THEN /\ pc' = "done"
               /\ buildRet' = Panic
               /\ UNCHANGED log
          ELSE LET call == [step |-> "compile", source |-> source_file,
                            object |-> ObjectFile(lib_name, source_file)]
               IN IF ~CompileRecipe(source_file).some
                  THEN /\ log' = Append(log, [call |-> call, result |-> "panic"])
                       /\ pc' = "done"
                       /\ buildRet' = Panic
                  ELSE /\ log' = Append(log, [call |-> call, result |-> outcome])
                       /\ pc' = "archive"
                       /\ UNCHANGED buildRet
    /\ UNCHANGED <<sources, lib_name, idx, directives>>
    /\ UNCHANGED <<prefsVars, recipeVars, toolVars>>

\* The body of the loop of build up to the end of self.config.compile(..)?,
\* config.rs:229-230, where outcome is what creating the object directory
\* and running the recipe come to.  The file_name().unwrap() panics on a
\* source without a file name, and compile panics on a source for which it
\* has no recipe.
BuildCompile(outcome) ==
    /\ pc = "compile"
    /\ LET source_file == sources[idx]
       IN IF ~SourceFileNameOf(source_file).some
          THEN /\ pc' = "done"
               /\ buildRet' = Panic
               /\ UNCHANGED log
          ELSE LET call == [step |-> "compile", source |-> source_file,
                            object |-> ObjectFile(lib_name, source_file)]
               IN IF ~CompileRecipe(source_file).some
                  THEN /\ log' = Append(log, [call |-> call, result |-> "panic"])
                       /\ pc' = "done"
                       /\ buildRet' = Panic
                  ELSE /\ log' = Append(log, [call |-> call, result |-> outcome])
                       /\ IF outcome = "ok"
                          THEN pc' = "archive" /\ UNCHANGED buildRet
                          ELSE pc' = "done" /\ buildRet' = [tag |-> "err", from |-> call]
    /\ UNCHANGED <<sources, lib_name, idx, directives>>
    /\ UNCHANGED <<prefsVars, recipeVars, toolVars>>

\* An archive step that always archives the object of the first source.
BuildArchiveFirst(outcome) ==
    /\ pc = "archive"
    /\ LET call == [step |-> "archive", object |-> ObjectFile(lib_name, sources[1]),
                    archive |-> ArchiveFile(lib_name)]
       IN /\ log' = Append(log, [call |-> call, result |-> outcome])
          /\ IF outcome # "ok"
             THEN /\ pc' = "done"
                  /\ buildRet' = [tag |-> "err", from |-> call]
                  /\ UNCHANGED <<idx, directives>>
             ELSE IF idx < Len(sources)
             THEN /\ pc' = "compile"
                  /\ idx' = idx + 1
                  /\ UNCHANGED <<directives, buildRet>>
             ELSE /\ pc' = "done"
                  /\ directives' = LinkDirectives(lib_name)
                  /\ buildRet' = Ok
                  /\ UNCHANGED idx
    /\ UNCHANGED <<sources, lib_name>>
    /\ UNCHANGED <<prefsVars, recipeVars, toolVars>>

\* The rest of the body of the loop, self.config.archive(..)?,
\* config.rs:231, and what follows it: the next source, or after the last
\* one the two directives and Ok(()), config.rs:235-238.
BuildArchive(outcome) ==
    /\ pc = "archive"
    /\ LET call == [step |-> "archive", object |-> ObjectFile(lib_name, sources[idx]),
                    archive |-> ArchiveFile(lib_name)]
       IN /\ log' = Append(log, [call |-> call, result |-> outcome])
          /\ IF outcome # "ok"
             THEN /\ pc' = "done"
                  /\ buildRet' = [tag |-> "err", from |-> call]
                  /\ UNCHANGED <<idx, directives>>
             ELSE IF idx < Len(sources)
             THEN /\ pc' = "compile"
                  /\ idx' = idx + 1
                  /\ UNCHANGED <<directives, buildRet>>
             ELSE /\ pc' = "done"
                  /\ directives' = LinkDirectives(lib_name)
                  /\ buildRet' = Ok
                  /\ UNCHANGED idx
    /\ UNCHANGED <<sources, lib_name>>
    /\ UNCHANGED <<prefsVars, recipeVars, toolVars>>

\* ---- A Builder under source, core_sources and build ----
SourcePool ==
    { Path("src", "a", "c"), Path("src", "b", "cpp"), Path("lib", "a", "cpp"),
      Path("src", "n", "txt"), Path("src", "gone", "c"), Path("src", "..", "") }
LibNames == {"core", "x"}
Outcomes == {"ok", "err"}

InitBuild ==
    /\ BuilderNew
    /\ PrefsIdle
    /\ RecipeIdle
    /\ ToolIdle

NextBuild ==
    \/ \E source \in SourcePool : Source(source)
    \/ CoreSources
    \/ \E name \in LibNames : Build(name)
    \/ \E outcome \in Outcomes : BuildCompile(outcome)
    \/ \E outcome \in Outcomes : BuildArchive(outcome)

SpecBuild == InitBuild /\ [][NextBuild]_vars

-----------------------------------------------------------------------------
(* get_system_includes, config.rs:379-391.                                 *)

\* str::starts_with.
StartsWith(s, prefix) ==
    Len(s) >= Len(prefix) /\ SubSeq(s, 1, Len(prefix)) = prefix

\* The marker of skip_while, config.rs:383.
IncludeMarker == <<"#", "i", "n", "c", "l", "u", "d", "e", " ", "<", ".", ".", ".", ">">>

\* The iterator chain with filter in the place of take_while.
SystemIncludesFiltered(out) ==
    IF ~out.started THEN <<>>
    ELSE LET lines == Lines(out.stderr)
             marker == FirstIdx(lines, 1, LAMBDA l : StartsWith(l, IncludeMarker))
             kept == SelectSeq(SubSeq(lines, marker + 1, Len(lines)),
                               LAMBDA l : StartsWith(l, <<" ">>))
         IN [i \in 1..Len(kept) |-> Tail(kept[i])]

\* The iterator chain of config.rs:380-390 over what Command::output()
\* returned: no output (.ok() is None) gives the default, the empty list;
\* otherwise the lines of stderr up to and including the first one that
\* starts with the marker are skipped, the lines that follow are taken
\* while they start with a space, and each is cut after its first byte.
SystemIncludes(out) ==
    IF ~out.started THEN <<>>
    ELSE LET lines == Lines(out.stderr)
             marker == FirstIdx(lines, 1, LAMBDA l : StartsWith(l, IncludeMarker))
             first == marker + 1
             stop == IF first > Len(lines) THEN first
                     ELSE FirstIdx(lines, first, LAMBDA l : ~StartsWith(l, <<" ">>))
         IN [i \in 1..(stop - first) |-> Tail(lines[first + i - 1])]

\* get_system_includes(command, args): the probe is run and its stderr read.
GetSystemIncludes ==
    /\ iop = "new"
    /\ iop' = "get_system_includes"
    /\ system_includes' = SystemIncludes(probe)
    /\ UNCHANGED <<probe, probe_lines>>
    /\ UNCHANGED <<prefsVars, recipeVars, buildVars, targetVars, boardVars, serializeVars, linkerVars>>

\* The lines a probe may write: the marker line of gcc, a line that holds the
\* marker after a space, the marker of the quoted includes, two directories,
\* a directory after two spaces, the closing line and an empty line.
ProbeLinePool ==
    { IncludeMarker \o <<" ", "s">>,
      <<" ">> \o IncludeMarker,
      <<"#", "i", "n", "c", "l", "u", "d", "e", " ", "\"">>,
      <<" ", "/", "a">>,
      <<" ", "/", "b">>,
      <<" ", " ", "c">>,
      <<"E", "n", "d">>,
      <<>> }

InitIncludes ==
    /\ probe_lines \in SeqsUpTo(ProbeLinePool, MaxProbeLines)
    /\ \/ probe = [started |-> TRUE, stderr |-> JoinLines(probe_lines)]
       \/ probe_lines = <<>> /\ probe = [started |-> FALSE]
    /\ system_includes = <<>>
    /\ iop = "new"
    /\ PrefsIdle
    /\ RecipeIdle
    /\ BuilderNew
    /\ TargetIdle
    /\ BoardIdle
    /\ SerializeIdle
    /\ LinkerIdle

NextIncludes == GetSystemIncludes

SpecIncludes == InitIncludes /\ [][NextIncludes]_vars

-----------------------------------------------------------------------------
(* create_target_spec, carguino/src/main.rs:344-414.                       *)

\* serde_json::Value as far as the descriptor needs it: null, booleans and
\* strings (s is their text), arrays of strings (a) and objects that are
\* not looked into.
Null == [t |-> "null", s |-> <<>>, a |-> <<>>]
VBool(b) == [t |-> "bool", s |-> IF b THEN <<"t", "r", "u", "e">> ELSE <<"f", "a", "l", "s", "e">>, a |-> <<>>]
VString(s) == [t |-> "string", s |-> s, a |-> <<>>]
VArray(a) == [t |-> "array", s |-> <<>>, a |-> a]
VObject == [t |-> "object", s |-> <<>>, a |-> <<>>]

\* spec[key] on a Value::Object: Null for a key that is absent.
Index(spec, key) == IF key \in DOMAIN spec THEN spec[key] ELSE Null

\* value.as_array().cloned().unwrap_or_default(), main.rs:388, 403.
AsArrayOrDefault(value) == IF value.t = "array" THEN value.a ELSE <<>>

\* The match of main.rs:346-358: the triple of the architecture, or the
\* error of bail!.
TargetOfDefaultV7(arch, cpu) ==
    IF arch = <<"a", "v", "r">> THEN [tag |-> "ok", val |-> <<"a", "v", "r", "-", "a", "t", "m", "e", "l", "-", "n", "o", "n", "e">>]
    ELSE IF arch = <<"s", "a", "m", "d">> THEN [tag |-> "ok", val |-> <<"t", "h", "u", "m", "b", "v", "6", "m", "-", "n", "o", "n", "e", "-", "e", "a", "b", "i">>]
    ELSE IF arch = <<"s", "a", "m">>
    THEN IF cpu \in {<<"c", "o", "r", "t", "e", "x", "-", "m", "0">>, <<"c", "o", "r", "t", "e", "x", "-", "m", "0", "p", "l", "u", "s">>, <<"c", "o", "r", "t", "e", "x", "-", "m", "1">>}
         THEN [tag |-> "ok", val |-> <<"t", "h", "u", "m", "b", "v", "6", "m", "-", "n", "o", "n", "e", "-", "e", "a", "b", "i">>]
         ELSE IF cpu \in {<<"c", "o", "r", "t", "e", "x", "-", "m", "4">>, <<"c", "o", "r", "t", "e", "x", "-", "m", "7">>}
         THEN [tag |-> "ok", val |-> <<"t", "h", "u", "m", "b", "v", "7", "e", "m", "-", "n", "o", "n", "e", "-", "e", "a", "b", "i">>]
         ELSE [tag |-> "ok", val |-> <<"t", "h", "u", "m", "b", "v", "7", "m", "-", "n", "o", "n", "e", "-", "e", "a", "b", "i">>]
    ELSE Err(<<"U", "n", "s", "u", "p", "p", "o", "r", "t", "e", "d", " ", "a", "r", "c", "h", "i", "t", "e", "c", "t", "u", "r", "e", ":", " ">> \o arch)

TargetOf(arch, cpu) ==
    IF arch = <<"a", "v", "r">> THEN [tag |-> "ok", val |-> <<"a", "v", "r", "-", "a", "t", "m", "e", "l", "-", "n", "o", "n", "e">>]
    ELSE IF arch = <<"s", "a", "m", "d">> THEN [tag |-> "ok", val |-> <<"t", "h", "u", "m", "b", "v", "6", "m", "-", "n", "o", "n", "e", "-", "e", "a", "b", "i">>]
    ELSE IF arch = <<"s", "a", "m">>
    THEN IF cpu \in {<<"c", "o", "r", "t", "e", "x", "-", "m", "0">>, <<"c", "o", "r", "t", "e", "x", "-", "m", "0", "p", "l", "u", "s">>, <<"c", "o", "r", "t", "e", "x", "-", "m", "1">>}
         THEN [tag |-> "ok", val |-> <<"t", "h", "u", "m", "b", "v", "6", "m", "-", "n", "o", "n", "e", "-", "e", "a", "b", "i">>]
         ELSE IF cpu = <<"c", "o", "r", "t", "e", "x", "-", "m", "3">>
         THEN [tag |-> "ok", val |-> <<"t", "h", "u", "m", "b", "v", "7", "m", "-", "n", "o", "n", "e", "-", "e", "a", "b", "i">>]
         ELSE IF cpu \in {<<"c", "o", "r", "t", "e", "x", "-", "m", "4">>, <<"c", "o", "r", "t", "e", "x", "-", "m", "7">>}
         THEN [tag |-> "ok", val |-> <<"t", "h", "u", "m", "b", "v", "7", "e", "m", "-", "n", "o", "n", "e", "-", "e", "a", "b", "i">>]
         ELSE Err(<<"U", "n", "s", "u", "p", "p", "o", "r", "t", "e", "d", " ", "S", "A", "M", " ", "C", "P", "U", ":", " ">> \o cpu)
    ELSE Err(<<"U", "n", "s", "u", "p", "p", "o", "r", "t", "e", "d", " ", "a", "r", "c", "h", "i", "t", "e", "c", "t", "u", "r", "e", ":", " ">> \o arch)

\* str::to_lowercase on the ASCII letters.
UpperCase == <<"A", "B", "C", "D", "E", "F", "G", "H", "I", "J", "K", "L", "M", "N", "O", "P", "Q", "R", "S", "T", "U", "V", "W", "X", "Y", "Z">>
LowerCase == <<"a", "b", "c", "d", "e", "f", "g", "h", "i", "j", "k", "l", "m", "n", "o", "p", "q", "r", "s", "t", "u", "v", "w", "x", "y", "z">>
ToLowercase(s) ==
    [i \in 1..Len(s) |->
        IF \E j \in 1..26 : UpperCase[j] = s[i]
        THEN LowerCase[CHOOSE j \in 1..26 : UpperCase[j] = s[i]]
        ELSE s[i]]

\* The cache key of main.rs:360-367.
SpecName(board) ==
    StrReplace(ToLowercase(board.arch), <<"-">>, <<"_">>) \o <<"-">>
    \o StrReplace(ToLowercase(board.vendor), <<"-">>, <<"_">>) \o <<"-">>
    \o StrReplace(ToLowercase(board.board), <<"-">>, <<"_">>)

\* targets_dir.join(&spec_name).with_extension("json"), main.rs:368, as the
\* name of the file in the targets directory: with_extension replaces what
\* follows the last "." of the name, unless the name only starts with one.
SpecPath(spec_name) ==
    LET dots == {i \in 2..Len(spec_name) : spec_name[i] = "."}
        stem == IF dots = {} THEN spec_name
                ELSE SubSeq(spec_name, 1, (CHOOSE i \in dots : \A j \in dots : j <= i) - 1)
    IN stem \o <<".", "j", "s", "o", "n">>

\* The pre-link-args of main.rs:388-400.
PreLinkArgsPathsFirst(spec, linker_options) ==
    AsArrayOrDefault(Index(spec, "pre-link-args"))
    \o [i \in 1..Len(linker_options.library_search_path) |->
            <<"-", "L">> \o linker_options.library_search_path[i]]
    \o [i \in 1..Len(linker_options.specs) |-> <<"-", "s", "p", "e", "c", "s", "=">> \o linker_options.specs[i]]
    \o linker_options.platform_options
    \o (IF linker_options.script.some
        THEN << <<"-", "T">> \o linker_options.script.val >> ELSE <<>>)

PreLinkArgs(spec, linker_options) ==
    AsArrayOrDefault(Index(spec, "pre-link-args"))
    \o [i \in 1..Len(linker_options.specs) |-> <<"-", "s", "p", "e", "c", "s", "=">> \o linker_options.specs[i]]
    \o linker_options.platform_options
    \o (IF linker_options.script.some
        THEN << <<"-", "T">> \o linker_options.script.val >> ELSE <<>>)
    \o [i \in 1..Len(linker_options.library_search_path) |->
            <<"-", "L">> \o linker_options.library_search_path[i]]

\* The late-link-args of main.rs:403-406.
LateLinkArgs(spec, linker_options) ==
    AsArrayOrDefault(Index(spec, "late-link-args"))
    \o [i \in 1..Len(linker_options.libraries) |-> <<"-", "l">> \o linker_options.libraries[i]]

\* The fields create_target_spec assigns, main.rs:382-407.
AssignedFields ==
    {"is-builtin", "linker", "linker-is-gnu", "no-default-libraries", "cpu",
     "pre-link-args", "late-link-args"}

\* The descriptor made from what rustc printed, main.rs:381-407.
TargetSpec(spec, linker_options, cpu) ==
    [k \in DOMAIN spec \cup AssignedFields |->
        CASE k = "is-builtin" -> VBool(FALSE)
          [] k = "linker" -> VString(linker_options.command)
          [] k = "linker-is-gnu" -> VBool(TRUE)
          [] k = "no-default-libraries" -> VBool(FALSE)
          [] k = "cpu" -> VString(cpu)
          [] k = "pre-link-args" -> VArray(PreLinkArgs(spec, linker_options))
          [] k = "late-link-args" -> VArray(LateLinkArgs(spec, linker_options))
          [] OTHER -> spec[k]]

\* The keys of a descriptor in the order serde_json writes them.
FieldOrder ==
    <<"cpu", "is-builtin", "late-link-args", "linker", "linker-is-gnu",
      "llvm-target", "no-default-libraries", "pre-link-args">>

Token(k, v) == [k |-> k, v |-> v]

\* serde_json::to_writer_pretty, main.rs:410: the pieces it hands to
\* write, one per member, between the two braces.
Pretty(spec) ==
    LET keys == SelectSeq(FieldOrder, LAMBDA k : k \in DOMAIN spec)
    IN << Token("{", Null) >>
       \o [i \in 1..Len(keys) |-> Token(keys[i], spec[keys[i]])]
       \o << Token("}", Null) >>

\* Path::is_file.
SpecFileExistsNever(fs, path) == FALSE

SpecFileExists(fs, path) == path \in DOMAIN fs

\* File::create: the file is there and empty afterwards.
FileCreate(fs, path) ==
    [p \in DOMAIN fs \cup {path} |-> IF p = path THEN <<>> ELSE fs[p]]

\* A position of a file nothing was written to.
Hole == Token("hole", Null)

\* write(2) on a file opened with O_APPEND.
FileWriteAppend(content, pos, chunk) == content \o chunk

\* write(2) of chunk at the offset pos of the file.
FileWrite(content, pos, chunk) ==
    LET padded == content \o [i \in 1..(pos - Len(content)) |-> Hole]
    IN SubSeq(padded, 1, pos) \o chunk
       \o SubSeq(padded, pos + Len(chunk) + 1, Len(padded))

OkVal(v) == [tag |-> "ok", val |-> v]

\* exec_with_output()? on a rustc that cannot be run or fails.
ProcessError == [tag |-> "err", kind |-> "ProcessError", msg |-> <<>>]

Done(proc, r) == [proc EXCEPT !.pc = "done", !.ret = r]

\* main.rs:368-370: the test of the file of the cache key; a file that is
\* there ends the call with the triple and the cache key.
TestSpecFile(st) ==
    IF SpecFileExists(st.files, SpecPath(st.proc.spec_name))
    THEN [st EXCEPT !.proc = Done(@, OkVal(<<st.proc.target, st.proc.spec_name>>))]
    ELSE [st EXCEPT !.proc = [@ EXCEPT !.pc = "query"]]

\* main.rs:346-370: the triple, the cache key and the test of the file.
CheckSpecFile(st) ==
    LET t == TargetOf(st.proc.arch, st.proc.cpu)
    IN IF t.tag = "err" THEN [st EXCEPT !.proc = Done(@, t)]
       ELSE IF ~st.proc.board.some THEN [st EXCEPT !.proc = Done(@, Panic)]
       ELSE TestSpecFile([st EXCEPT !.proc =
                            [@ EXCEPT !.target = t.val,
                                      !.spec_name = SpecName(st.proc.board.val)]])

\* main.rs:371-407: rustc is asked for the descriptor of the triple and the
\* descriptor of the board is made from it.
QueryRustc(st, tool) ==
    LET out == tool[st.proc.target]
        asked == [st EXCEPT !.queries = Append(@, st.proc.target)]
    IN IF out.tag = "err" THEN [asked EXCEPT !.proc = Done(@, ProcessError)]
       ELSE IF out.tag = "garbage" THEN [asked EXCEPT !.proc = Done(@, Panic)]
       ELSE [asked EXCEPT !.proc =
                [@ EXCEPT !.bytes = Pretty(TargetSpec(out.stdout, st.proc.linker_options,
                                                      st.proc.cpu)),
                          !.pc = "create"]]

\* main.rs:409.
CreateSpecFile(st, ok) ==
    IF ~ok THEN [st EXCEPT !.proc = Done(@, Err(<<"C", "o", "u", "l", "d", " ", "n", "o", "t", " ", "c", "r", "e", "a", "t", "e", " ", "t", "a", "r", "g", "e", "t", " ", "s", "p", "e", "c", " ", "f", "i", "l", "e">>))]
    ELSE [st EXCEPT !.files = FileCreate(@, SpecPath(st.proc.spec_name)),
                    !.proc = [@ EXCEPT !.pos = 0, !.pc = "write"]]

\* main.rs:410-413: one write of to_writer_pretty; after the last one the
\* call returns the triple and the cache key.
WriteSpecFile(st, ok) ==
    IF ~ok
    THEN [st EXCEPT !.proc = Done(@, Err(<<"C", "o", "u", "l", "d", " ", "n", "o", "t", " ", "s", "e", "r", "i", "a", "l", "i", "z", "e", " ", "t", "o", " ", "t", "a", "r", "g", "e", "t", " ", "s", "p", "e", "c", " ", "f", "i", "l", "e">>))]
    ELSE LET path == SpecPath(st.proc.spec_name)
             pos == st.proc.pos
             old == IF path \in DOMAIN st.files THEN st.files[path] ELSE <<>>
         IN [st EXCEPT
                !.files = [p \in DOMAIN @ \cup {path} |->
                              IF p = path
                              THEN FileWrite(old, pos, <<st.proc.bytes[pos + 1]>>)
                              ELSE @[p]],
                !.proc = IF pos + 1 = Len(st.proc.bytes)
                         THEN [Done(@, OkVal(<<st.proc.target, st.proc.spec_name>>))
                                  EXCEPT !.pos = pos + 1]
                         ELSE [@ EXCEPT !.pos = pos + 1]]

\* One step of a call of create_target_spec.
TargetStep(st, tool, ok) ==
    CASE st.proc.pc = "check" -> CheckSpecFile(st)
      [] st.proc.pc = "query" -> QueryRustc(st, tool)
      [] st.proc.pc = "create" -> CreateSpecFile(st, ok)
      [] st.proc.pc = "write" -> WriteSpecFile(st, ok)

\* A call run to its end on its own; of its steps, the first budget ones
\* find the disk working.
RECURSIVE TargetRun(_, _, _)
TargetRun(st, tool, budget) ==
    IF st.proc.pc = "done" THEN st
    ELSE TargetRun(TargetStep(st, tool, budget > 0), tool, budget - 1)

\* The locals of a call that has just been entered.
Entered(arch, cpu, board, linker_options) ==
    [IdleProc EXCEPT !.pc = "check", !.arch = arch, !.cpu = cpu, !.board = board,
                     !.linker_options = linker_options]

\* create_target_spec(config, linker_options, targets_dir, arch, cpu) called
\* and run to its end while no other build runs.
CreateTargetSpec(platform, board, budget) ==
    /\ calls < MaxCalls
    /\ \E end \in {TargetRun([proc |-> Entered(platform.arch, platform.cpu, board,
                                               platform.linker_options),
                               files |-> files, queries |-> queries],
                              rustc, budget)} :
          /\ procs' = [procs EXCEPT ![1] = end.proc]
          /\ files' = end.files
          /\ queries' = end.queries
    /\ calls' = calls + 1
    /\ UNCHANGED rustc
    /\ UNCHANGED <<prefsVars, recipeVars, buildVars, includesVars, boardVars, serializeVars, linkerVars>>

\* The next step of the call of process p, taken while the other build may
\* be anywhere in its own call.
Advance(p, ok) ==
    /\ \E end \in {TargetStep([proc |-> procs[p], files |-> files, queries |-> queries],
                               rustc, ok)} :
          /\ procs' = [procs EXCEPT ![p] = end.proc]
          /\ files' = end.files
          /\ queries' = end.queries
    /\ UNCHANGED <<rustc, calls>>
    /\ UNCHANGED <<prefsVars, recipeVars, buildVars, includesVars, boardVars, serializeVars, linkerVars>>

ProcCheck(p) == procs[p].pc = "check" /\ Advance(p, TRUE)
ProcQuery(p) == procs[p].pc = "query" /\ Advance(p, TRUE)
ProcCreate(p, ok) == procs[p].pc = "create" /\ Advance(p, ok)
ProcWrite(p, ok) == procs[p].pc = "write" /\ Advance(p, ok)

\* Inputs.
Triples ==
    {<<"a", "v", "r", "-", "a", "t", "m", "e", "l", "-", "n", "o", "n", "e">>, <<"t", "h", "u", "m", "b", "v", "6", "m", "-", "n", "o", "n", "e", "-", "e", "a", "b", "i">>, <<"t", "h", "u", "m", "b", "v", "7", "m", "-", "n", "o", "n", "e", "-", "e", "a", "b", "i">>,
     <<"t", "h", "u", "m", "b", "v", "7", "e", "m", "-", "n", "o", "n", "e", "-", "e", "a", "b", "i">>}

\* What rustc --print target-spec-json prints for a triple: with the two
\* argument lists, without them, or with pre-link-args as an object.
Template(target, kind) ==
    IF kind = "lists"
    THEN [x \in {"llvm-target", "is-builtin", "linker", "no-default-libraries",
                 "pre-link-args", "late-link-args"} |->
            CASE x = "llvm-target" -> VString(target)
              [] x = "is-builtin" -> VBool(TRUE)
              [] x = "linker" -> VString(<<"c", "c">>)
              [] x = "no-default-libraries" -> VBool(TRUE)
              [] x = "pre-link-args" -> VArray(<< <<"-", "W", "l", ",", "-", "z">> >>)
              [] x = "late-link-args" -> VArray(<< <<"-", "l", "g", "c", "c">> >>)]
    ELSE IF kind = "object"
    THEN [x \in {"llvm-target", "is-builtin", "pre-link-args"} |->
            CASE x = "llvm-target" -> VString(target)
              [] x = "is-builtin" -> VBool(TRUE)
              [] x = "pre-link-args" -> VObject]
    ELSE [x \in {"llvm-target", "is-builtin"} |->
            CASE x = "llvm-target" -> VString(target)
              [] x = "is-builtin" -> VBool(TRUE)]

Toolchains ==
    {[t \in Triples |-> [tag |-> "ok", stdout |-> Template(t, kind)]] :
        kind \in {"lists", "object", "bare"}}
    \cup {[t \in Triples |-> [tag |-> "err"]], [t \in Triples |-> [tag |-> "garbage"]]}

AvrGcc ==
    [LinkerOptionsDefault EXCEPT
        !.command = <<"a", "v", "r", "-", "g", "c", "c">>,
        !.libraries = << <<"m">> >>,
        !.platform_options = << <<"-", "m", "m", "c", "u", "=", "a", "t", "m", "e", "g", "a", "3", "2", "8", "p">> >>]

ArmGcc ==
    [LinkerOptionsDefault EXCEPT
        !.command = <<"a", "r", "m", "-", "n", "o", "n", "e", "-", "e", "a", "b", "i", "-", "g", "c", "c">>,
        !.script = Some(<<"f", "l", "a", "s", "h", ".", "l", "d">>),
        !.specs = << <<"n", "a", "n", "o", ".", "s", "p", "e", "c", "s">>, <<"n", "o", "s", "y", "s", ".", "s", "p", "e", "c", "s">> >>,
        !.library_search_path = << <<"/", "v">>, <<"/", "w">> >>,
        !.libraries = << <<"m">>, <<"g", "c", "c">> >>,
        !.platform_options = << <<"-", "m", "c", "p", "u", "=", "c", "o", "r", "t", "e", "x", "-", "m", "3">>, <<"-", "m", "t", "h", "u", "m", "b">> >>]

Platform(arch, cpu, linker_options) ==
    [arch |-> arch, cpu |-> cpu, linker_options |-> linker_options]

Platforms ==
    { Platform(<<"a", "v", "r">>, <<"a", "t", "m", "e", "g", "a", "3", "2", "8", "p">>, AvrGcc),
      Platform(<<"s", "a", "m", "d">>, <<"c", "o", "r", "t", "e", "x", "-", "m", "0", "p", "l", "u", "s">>, ArmGcc),
      Platform(<<"s", "a", "m">>, <<"c", "o", "r", "t", "e", "x", "-", "m", "0">>, ArmGcc),
      Platform(<<"s", "a", "m">>, <<"c", "o", "r", "t", "e", "x", "-", "m", "0", "p", "l", "u", "s">>, ArmGcc),
      Platform(<<"s", "a", "m">>, <<"c", "o", "r", "t", "e", "x", "-", "m", "1">>, ArmGcc),
      Platform(<<"s", "a", "m">>, <<"c", "o", "r", "t", "e", "x", "-", "m", "3">>, ArmGcc),
      Platform(<<"s", "a", "m">>, <<"c", "o", "r", "t", "e", "x", "-", "m", "4">>, ArmGcc),
      Platform(<<"s", "a", "m">>, <<"c", "o", "r", "t", "e", "x", "-", "m", "7">>, ArmGcc),
      Platform(<<"s", "a", "m">>, <<"c", "o", "r", "t", "e", "x", "-", "a", "9">>, ArmGcc),
      Platform(<<"e", "s", "p", "8", "2", "6", "6">>, <<"c", "o", "r", "t", "e", "x", "-", "m", "3">>, AvrGcc) }

BoardOf(vendor, arch, board) ==
    [vendor |-> vendor, arch |-> arch, board |-> board, params |-> <<>>]

Boards ==
    { None,
      Some(BoardOf(<<"a", "r", "d", "u", "i", "n", "o">>, <<"a", "v", "r">>, <<"u", "n", "o">>)),
      Some(BoardOf(<<"A", "r", "d", "u", "i", "n", "o">>, <<"s", "a", "m">>, <<"d", "u", "e", "-", "x">>)) }

\* The steps of a call that succeed before the disk fails: none of the
\* writes, the creation and one write, or all of them.
IoBudgets == {2, 4, 99}

InitTarget ==
    /\ rustc \in Toolchains
    /\ files = <<>>
    /\ queries = <<>>
    /\ calls = 0
    /\ procs = [p \in Procs |-> IdleProc]
    /\ PrefsIdle
    /\ RecipeIdle
    /\ BuilderNew
    /\ IncludesIdle
    /\ BoardIdle
    /\ SerializeIdle
    /\ LinkerIdle

NextTarget ==
    \E platform \in Platforms, board \in Boards, budget \in IoBudgets :
        CreateTargetSpec(platform, board, budget)

SpecTarget == InitTarget /\ [][NextTarget]_vars

\* Two builds of the same board with the same inputs, both entered.
InitRace ==
    /\ rustc \in Toolchains
    /\ files = <<>>
    /\ queries = <<>>
    /\ calls = 2
    /\ \E platform \in Platforms, board \in Boards :
          procs = [p \in Procs |->
                    Entered(platform.arch, platform.cpu, board, platform.linker_options)]
    /\ PrefsIdle
    /\ RecipeIdle
    /\ BuilderNew
    /\ IncludesIdle
    /\ BoardIdle
    /\ SerializeIdle
    /\ LinkerIdle

NextRace ==
    \E p \in Procs :
        \/ ProcCheck(p)
        \/ ProcQuery(p)
        \/ \E ok \in BOOLEAN : ProcCreate(p, ok)
        \/ \E ok \in BOOLEAN : ProcWrite(p, ok)

SpecRace == InitRace /\ [][NextRace]_vars

-----------------------------------------------------------------------------
(* BoardInfo, carguino/src/board.rs.                                       *)

\* The tail of the regex of board.rs:23 after the colon of the optional
\* group, (?:\S+?=\S+?)(?:,?:\S+?=\S+?)*$, on a text without white space:
\* the last \S+? may take everything up to the end, so the tail matches
\* when a "=" stands after at least one character and before at least one.
ParamsMatch(t) == \E e \in 2..(Len(t) - 1) : t[e] = "="

\* The captures of the regex of board.rs:23 on s, None when it does not
\* match.  Every character is matched by \S or by a literal, so a text with
\* white space does not match; the three lazy groups end at the first
\* colons that leave a match of the rest, the third one where the optional
\* group matches up to the end or the text ends.  Group 4 is None when the
\* optional group did not take part.
FqbnCaptures(s) ==
    LET C1 == {i \in 2..Len(s) : s[i] = ":" /\ \E j \in (i + 2)..(Len(s) - 1) : s[j] = ":"}
    IN IF (\E i \in 1..Len(s) : IsSpace(s[i])) \/ C1 = {} THEN None
       ELSE LET i1 == Min(C1)
                i2 == Min({j \in (i1 + 2)..(Len(s) - 1) : s[j] = ":"})
                e3 == Min({j \in (i2 + 1)..Len(s) :
                             \/ j = Len(s)
                             \/ s[j + 1] = ":" /\ ParamsMatch(SubSeq(s, j + 2, Len(s)))})
            IN Some([g1 |-> SubSeq(s, 1, i1 - 1),
                     g2 |-> SubSeq(s, i1 + 1, i2 - 1),
                     g3 |-> SubSeq(s, i2 + 1, e3),
                     g4 |-> IF e3 = Len(s) THEN None
                            ELSE Some(SubSeq(s, e3 + 2, Len(s)))])

\* board.rs:27-32: the pairs of group 4, each cut at its "=".
FqbnPairs(g4) ==
    IF ~g4.some THEN <<>>
    ELSE LET pairs == SplitOn(g4.val, ",")
         IN [i \in 1..Len(pairs) |-> SplitOn(pairs[i], "=")]

\* HashMap::from_iter over the pairs: a later pair replaces an earlier one
\* with the same key.
ParamsOf(pairs) ==
    [k \in {pairs[i][1] : i \in 1..Len(pairs)} |->
        pairs[CHOOSE i \in 1..Len(pairs) :
                /\ pairs[i][1] = k
                /\ \A j \in (i + 1)..Len(pairs) : pairs[j][1] # k][2]]

InvalidFqbn == Err(<<"I", "n", "v", "a", "l", "i", "d", " ", "f", "u", "l", "l", "y", "-", "q", "u", "a", "l", "i", "f", "i", "e", "d", " ", "b", "o", "a", "r", "d", " ", "n", "a", "m", "e">>)

\* BoardInfo::from_fqbn(fqbn), board.rs:20-40; the second
\* iter.next().unwrap() panics on a pair without "=".
FromFqbnOf(s) ==
    LET captures == FqbnCaptures(s)
    IN IF ~captures.some THEN InvalidFqbn
       ELSE LET pairs == FqbnPairs(captures.val.g4)
            IN IF \E i \in 1..Len(pairs) : Len(pairs[i]) < 2 THEN Panic
               ELSE OkVal([vendor |-> captures.val.g1,
                           arch |-> captures.val.g2,
                           board |-> captures.val.g3,
                           params |-> ParamsOf(pairs)])

RECURSIVE JoinWith(_, _)
JoinWith(ss, sep) ==
    IF ss = <<>> THEN <<>>
    ELSE IF Len(ss) = 1 THEN ss[1]
    ELSE ss[1] \o sep \o JoinWith(Tail(ss), sep)

\* Display for BoardInfo, board.rs:55-63; order is the order in which the
\* HashMap iterates over its keys.
DisplayOf(info, order) ==
    info.vendor \o <<":">> \o info.arch \o <<":">> \o info.board
    \o (IF DOMAIN info.params = {} THEN <<>>
        ELSE <<":">> \o JoinWith([i \in 1..Len(order) |->
                                    order[i] \o <<"=">> \o info.params[order[i]]], <<",">>))

\* BoardInfo::from_fqbn on the input, or on what Display wrote.
FromFqbn ==
    /\ bop \in {"new", "fmt"}
    /\ bop' = "from_fqbn"
    /\ first_parsed' = parsed
    /\ parsed' = FromFqbnOf(fqbn)
    /\ UNCHANGED <<fqbn, rendered>>
    /\ UNCHANGED <<prefsVars, recipeVars, buildVars, includesVars, targetVars, serializeVars, linkerVars>>

\* format!("{}", board) of the BoardInfo parsed first, the HashMap iterating
\* in any order; the text is the next input of from_fqbn.
Fmt ==
    /\ bop = "from_fqbn"
    /\ ~rendered.some
    /\ parsed.tag = "ok"
    /\ bop' = "fmt"
    /\ \E order \in Orders(DOMAIN parsed.val.params) :
          /\ rendered' = Some(DisplayOf(parsed.val, order))
          /\ fqbn' = DisplayOf(parsed.val, order)
    /\ UNCHANGED <<parsed, first_parsed>>
    /\ UNCHANGED <<prefsVars, recipeVars, buildVars, includesVars, targetVars, serializeVars, linkerVars>>

FqbnChars == {"a", "b", ":", "=", ",", " "}

ExampleFqbn == <<"a", ":", "b", ":", "c", ":", "k", "1", "=", "v", "1", ",", "k", "2", "=", "v", "2">>

\* A parameter list with an entry that holds no "=".
EntryWithoutEquals == <<"a", ":", "b", ":", "c", ":", "k", "=", "v", ",", "x">>

\* The inputs of from_fqbn: the short texts, a:b: followed by every tail,
\* the example with two parameters and the list with an entry without "=".
Fqbns ==
    SeqsUpTo(FqbnChars, MaxFqbnTail - 1)
    \cup {<<"a", ":", "b", ":">> \o tail : tail \in SeqsUpTo(FqbnChars, MaxFqbnTail)}
    \cup {ExampleFqbn, EntryWithoutEquals}

InitBoard ==
    /\ fqbn \in Fqbns
    /\ parsed = Unit
    /\ first_parsed = Unit
    /\ rendered = None
    /\ bop = "new"
    /\ PrefsIdle
    /\ RecipeIdle
    /\ BuilderNew
    /\ IncludesIdle
    /\ TargetIdle
    /\ SerializeIdle
    /\ LinkerIdle

NextBoard == FromFqbn \/ Fmt

SpecBoard == InitBoard /\ [][NextBoard]_vars

-----------------------------------------------------------------------------
(* Config::serialize, config.rs:41-87.                                     *)

BuildCore == <<"b", "u", "i", "l", "d", ".", "c", "o", "r", "e">>
BuildBoard == <<"b", "u", "i", "l", "d", ".", "b", "o", "a", "r", "d">>
BuildCorePath == <<"b", "u", "i", "l", "d", ".", "c", "o", "r", "e", ".", "p", "a", "t", "h">>
BuildVariantPath == <<"b", "u", "i", "l", "d", ".", "v", "a", "r", "i", "a", "n", "t", ".", "p", "a", "t", "h">>

\* format!("recipe.{}.pattern", name), config.rs:281.
RecipePattern(name) == <<"r", "e", "c", "i", "p", "e", ".">> \o name \o <<".", "p", "a", "t", "t", "e", "r", "n">>

\* The five prefs.set of config.rs:42-46.
SerializeSets(prefs) ==
    [k \in DOMAIN prefs \cup {<<"s", "o", "u", "r", "c", "e", "_", "f", "i", "l", "e">>, <<"o", "b", "j", "e", "c", "t", "_", "f", "i", "l", "e">>, <<"i", "n", "c", "l", "u", "d", "e", "s">>,
                              <<"a", "r", "c", "h", "i", "v", "e", "_", "f", "i", "l", "e">>, <<"a", "r", "c", "h", "i", "v", "e", "_", "f", "i", "l", "e", "_", "p", "a", "t", "h">>} |->
        IF k = <<"s", "o", "u", "r", "c", "e", "_", "f", "i", "l", "e">> THEN <<"%", "s", "o", "u", "r", "c", "e", "_", "f", "i", "l", "e">>
        ELSE IF k = <<"o", "b", "j", "e", "c", "t", "_", "f", "i", "l", "e">> THEN <<"%", "o", "b", "j", "e", "c", "t", "_", "f", "i", "l", "e">>
        ELSE IF k = <<"i", "n", "c", "l", "u", "d", "e", "s">> THEN <<"%", "i", "n", "c", "l", "u", "d", "e", "s">>
        ELSE IF k = <<"a", "r", "c", "h", "i", "v", "e", "_", "f", "i", "l", "e">> THEN <<"%", "a", "r", "c", "h", "i", "v", "e", "_", "f", "i", "l", "e">>
        ELSE IF k = <<"a", "r", "c", "h", "i", "v", "e", "_", "f", "i", "l", "e", "_", "p", "a", "t", "h">> THEN <<"%", "a", "r", "c", "h", "i", "v", "e", "_", "f", "i", "l", "e">>
        ELSE prefs[k]]

\* The error of config.rs:49, 53, 57, 60.
MissingFromPreferences(key) == Err(<<"'">> \o key \o <<"'", " ", "m", "i", "s", "s", "i", "n", "g", " ", "f", "r", "o", "m", " ", "p", "r", "e", "f", "e", "r", "e", "n", "c", "e", "s">>)

\* The members of the Config of config.rs:70-84 in the order of the struct,
\* as serde_json::to_string writes them.
ConfigDocument(map, llvm_target, arch, library_paths, c_out, cpp_out) ==
    << <<"core", map[BuildCore]>>,
       <<"arch", arch>>,
       <<"board", ToLowercase(map[BuildBoard])>>,
       <<"llvm_target", llvm_target>>,
       <<"core_path", map[BuildCorePath]>>,
       <<"variant_path", map[BuildVariantPath]>>,
       <<"library_paths", library_paths>>,
       <<"c_system_includes", SystemIncludes(c_out)>>,
       <<"cpp_system_includes", SystemIncludes(cpp_out)>>,
       <<"c_compiler", map[RecipePattern(<<"c", ".", "o">>)]>>,
       <<"cpp_compiler", map[RecipePattern(<<"c", "p", "p", ".", "o">>)]>>,
       <<"assembler", map[RecipePattern(<<"S", ".", "o">>)]>>,
       <<"archiver", map[RecipePattern(<<"a", "r">>)]>> >>

\* config.rs:48-86 on the expanded map: the four build keys are looked up
\* with map_or_else(|| Err(..), Ok)?, the four patterns with unwrap()
\* (config.rs:281), and Recipe::command splits the pattern of the C and of
\* the C++ compiler before the probes run.
SerializeFrom(map, llvm_target, arch, library_paths, c_out, cpp_out) ==
    IF BuildCore \notin DOMAIN map THEN MissingFromPreferences(BuildCore)
    ELSE IF BuildBoard \notin DOMAIN map THEN MissingFromPreferences(BuildBoard)
    ELSE IF BuildCorePath \notin DOMAIN map THEN MissingFromPreferences(BuildCorePath)
    ELSE IF BuildVariantPath \notin DOMAIN map THEN MissingFromPreferences(BuildVariantPath)
    ELSE IF \E name \in {<<"c", ".", "o">>, <<"c", "p", "p", ".", "o">>, <<"S", ".", "o">>, <<"a", "r">>} :
                RecipePattern(name) \notin DOMAIN map
    THEN Panic
    ELSE IF \E name \in {<<"c", ".", "o">>, <<"c", "p", "p", ".", "o">>} :
                SplitCommandLine(map[RecipePattern(name)]) = Panic
    THEN Panic
    ELSE OkVal(ConfigDocument(map, llvm_target, arch, library_paths, c_out, cpp_out))

\* Config::serialize(prefs, llvm_target, arch, library_paths); c_out and
\* cpp_out are what the two probes of get_system_includes return.
SerializeOf(prefs, llvm_target, arch, library_paths, c_out, cpp_out) ==
    SerializeFrom(ExpandLoop(SerializeSets(prefs)).prefs,
                  llvm_target, arch, library_paths, c_out, cpp_out)

ProbeOutputs ==
    { [started |-> FALSE],
      [started |-> TRUE,
       stderr |-> JoinLines(<< IncludeMarker, <<" ", "/", "a">>, <<"E", "n", "d">> >>)] }

LibraryPaths == [n \in {<<"W", "i", "r", "e">>} |-> <<"/", "l", "/", "W", "i", "r", "e">>]

Serialize ==
    /\ sop = "new"
    /\ sop' = "serialize"
    /\ \E c_out \in ProbeOutputs, cpp_out \in ProbeOutputs :
          document' = SerializeOf(given, <<"a", "v", "r", "-", "a", "t", "m", "e", "l", "-", "n", "o", "n", "e">>, <<"a", "v", "r">>, LibraryPaths,
                                  c_out, cpp_out)
    /\ UNCHANGED given
    /\ UNCHANGED <<prefsVars, recipeVars, buildVars, includesVars, targetVars, boardVars, linkerVars>>

\* The keys serialize needs with a value for each; the pattern of the C
\* compiler may also be blank.
RequiredKeys ==
    {BuildCore, BuildBoard, BuildCorePath, BuildVariantPath,
     RecipePattern(<<"c", ".", "o">>), RecipePattern(<<"c", "p", "p", ".", "o">>), RecipePattern(<<"S", ".", "o">>),
     RecipePattern(<<"a", "r">>)}

PlatformValue(key) ==
    IF key = BuildCore THEN <<"a", "r", "d", "u", "i", "n", "o">>
    ELSE IF key = BuildBoard THEN <<"A", "V", "R", "_", "U", "N", "O">>
    ELSE IF key = BuildCorePath THEN <<"/", "c">>
    ELSE IF key = BuildVariantPath THEN <<"/", "v">>
    ELSE IF key = RecipePattern(<<"c", ".", "o">>) THEN <<"g", "c", "c", " ", "{", "i", "n", "c", "l", "u", "d", "e", "s", "}", " ", "{", "s", "o", "u", "r", "c", "e", "_", "f", "i", "l", "e", "}">>
    ELSE IF key = RecipePattern(<<"c", "p", "p", ".", "o">>) THEN <<"g", "+", "+", " ", "{", "s", "o", "u", "r", "c", "e", "_", "f", "i", "l", "e", "}">>
    ELSE IF key = RecipePattern(<<"S", ".", "o">>) THEN <<"a", "s", " ", "{", "s", "o", "u", "r", "c", "e", "_", "f", "i", "l", "e", "}">>
    ELSE <<"a", "r", " ", "{", "a", "r", "c", "h", "i", "v", "e", "_", "f", "i", "l", "e", "_", "p", "a", "t", "h", "}", " ", "{", "o", "b", "j", "e", "c", "t", "_", "f", "i", "l", "e", "}">>

GivenPrefs ==
    {[k \in keys |-> PlatformValue(k)] : keys \in SUBSET RequiredKeys}
    \cup {[k \in keys \cup {RecipePattern(<<"c", ".", "o">>)} |->
              IF k = RecipePattern(<<"c", ".", "o">>) THEN <<" ">> ELSE PlatformValue(k)] :
            keys \in SUBSET RequiredKeys}

InitSerialize ==
    /\ given \in GivenPrefs
    /\ document = Unit
    /\ sop = "new"
    /\ PrefsIdle
    /\ RecipeIdle
    /\ BuilderNew
    /\ IncludesIdle
    /\ TargetIdle
    /\ BoardIdle
    /\ LinkerIdle

NextSerialize == Serialize

SpecSerialize == InitSerialize /\ [][NextSerialize]_vars

-----------------------------------------------------------------------------
(* parse_linker_options, carguino/src/main.rs:290-342.                     *)

\* A file system in which every path names a directory.
IsDirAlways(dirs, path) == TRUE

\* Path::new(&path).is_dir(), main.rs:316 and 322: dirs are the paths that
\* name an existing directory.
IsDir(dirs, path) == path \in dirs

\* The loop `while let Some(arg) = iter.next()` at the token i of args,
\* main.rs:297-340: the arms of the match are tried in order; an arm that
\* takes its value from iter.next() consumes the following token and panics
\* on unwrap() when there is none.
LinkerArg(args, dirs, st, i) ==
    LET arg == args[i]
        result == st.result
        One(r) == [result |-> r, panic |-> FALSE, next |-> i + 1]
        Two(r) == [result |-> r, panic |-> FALSE, next |-> i + 2]
        Unwrap == [result |-> result, panic |-> TRUE, next |-> Len(args) + 1]
    IN IF arg \in {<<"-", "-", "s", "p", "e", "c", "s">>, <<"-", "s", "p", "e", "c", "s">>}
       THEN IF i < Len(args)
            THEN Two([result EXCEPT !.specs = Append(@, args[i + 1])])
            ELSE Unwrap
       ELSE IF StartsWith(arg, <<"-", "-", "s", "p", "e", "c", "s", "=">>) \/ StartsWith(arg, <<"-", "s", "p", "e", "c", "s", "=">>)
       THEN One([result EXCEPT !.specs = Append(@, Splitn2(arg)[2])])
       ELSE IF arg = <<"-", "T">>
       THEN IF i < Len(args)
            THEN Two([result EXCEPT !.script = Some(args[i + 1])])
            ELSE Unwrap
       ELSE IF StartsWith(arg, <<"-", "T">>)
       THEN One([result EXCEPT !.script = Some(SubSeq(arg, 3, Len(arg)))])
       ELSE IF arg = <<"-", "L">>
       THEN IF i < Len(args)
            THEN Two(IF IsDir(dirs, args[i + 1])
                     THEN [result EXCEPT !.library_search_path = Append(@, args[i + 1])]
                     ELSE result)
            ELSE Unwrap
       ELSE IF StartsWith(arg, <<"-", "L">>)
       THEN One(IF IsDir(dirs, SubSeq(arg, 3, Len(arg)))
                THEN [result EXCEPT !.library_search_path = Append(@, SubSeq(arg, 3, Len(arg)))]
                ELSE result)
       ELSE IF arg = <<"-", "l">>
       THEN IF i < Len(args)
            THEN Two([result EXCEPT !.libraries = Append(@, args[i + 1])])
            ELSE Unwrap
       ELSE IF StartsWith(arg, <<"-", "l">>)
       THEN One([result EXCEPT !.libraries = Append(@, SubSeq(arg, 3, Len(arg)))])
       ELSE IF StartsWith(arg, <<"-", "m">>)
       THEN One([result EXCEPT !.platform_options = Append(@, arg)])
       ELSE One(result)

\* The loop of parse_linker_options over the tokens args, main.rs:292-341.
ParseArgs(command, args, dirs) ==
    LET Step(st, i) == LinkerArg(args, dirs, st, i)
    IN Scan(Step,
            [result |-> [LinkerOptionsDefault EXCEPT !.command = command],
             panic |-> FALSE, next |-> 1],
            1, Len(args))

\* What parse_linker_options returns when the loop has ended, main.rs:341;
\* a call that panicked returns nothing.
ParseResult(end) == IF end.panic THEN Panic ELSE OkVal(end.result)

\* parse_linker_options from what split_command_line returned,
\* main.rs:291-341.
ParseSplit(split, dirs) ==
    IF split = Panic THEN Panic
    ELSE ParseResult(ParseArgs(split.command, split.args, dirs))

\* parse_linker_options(line), main.rs:290-342: the first token of
\* split_command_line is the command, the loop runs over the other tokens.
ParseLinkerOptions(line, dirs) == ParseSplit(SplitCommandLine(line), dirs)

\* The call `parse_linker_options(&linker_recipe)`, main.rs:174.
ParseOptions ==
    /\ lop = "new"
    /\ parsed_options' = ParseLinkerOptions(linker_recipe, is_dir)
    /\ lop' = "parse"
    /\ UNCHANGED <<linker_recipe, is_dir>>
    /\ UNCHANGED <<prefsVars, recipeVars, buildVars, includesVars, targetVars, boardVars,
                   serializeVars>>

\* ---- parse_linker_options over every short list of tokens ----
\* The tokens a recipe is written from: every option of the match in both of
\* its forms, values, and tokens that no arm takes.
LinkerTokens ==
    { <<"-", "-", "s", "p", "e", "c", "s">>, <<"-", "s", "p", "e", "c", "s">>, <<"-", "-", "s", "p", "e", "c", "s", "=", "n">>, <<"-", "s", "p", "e", "c", "s", "=", "a", "=", "b">>, <<"-", "T">>, <<"-", "T", "s">>, <<"-", "L">>, <<"-", "L", "d">>,
      <<"-", "L", "x">>, <<"-", "l">>, <<"-", "l", "m">>, <<"-", "m", "x">>, <<"d">>, <<"x">>, <<"-", "o">> }

\* The recipe that is written from the tokens ts: the tokens separated by
\* one space.
RecipeOf(ts) == JoinWith(ts, <<" ">>)

\* recipe.c.combine.pattern of the AVR platform, expanded.
AvrCombine ==
    RecipeOf(<<<<"a", "v", "r", "-", "g", "c", "c">>, <<"-", "w">>, <<"-", "O", "s">>, <<"-", "W", "l", ",", "-", "-", "g", "c", "-", "s", "e", "c", "t", "i", "o", "n", "s">>, <<"-", "m", "m", "c", "u", "=", "a", "t", "m", "e", "g", "a", "3", "2", "8", "p">>,
               <<"-", "T">>, <<"s">>, <<"-", "o">>, <<"x">>, <<"-", "L", "d">>, <<"-", "L">>, <<"x">>, <<"-", "l", "m">>, <<"-", "l">>, <<"c">>,
               <<"-", "T", "t">>, <<"-", "-", "s", "p", "e", "c", "s", "=", "n">>, <<"-", "s", "p", "e", "c", "s">>, <<"a">>>>)

LinkerRecipes ==
    {RecipeOf(<<<<"l", "d">>>> \o ts) : ts \in SeqsUpTo(LinkerTokens, MaxArgs)} \cup {AvrCombine}

\* The directories that exist: the path d alone, or both d and x.
DirSets == {{<<"d">>}, {<<"d">>, <<"x">>}}

InitLinker ==
    /\ linker_recipe \in LinkerRecipes
    /\ is_dir \in DirSets
    /\ parsed_options = Unit
    /\ lop = "new"
    /\ PrefsIdle
    /\ RecipeIdle
    /\ BuilderNew
    /\ IncludesIdle
    /\ TargetIdle
    /\ BoardIdle
    /\ SerializeIdle

NextLinker == ParseOptions

SpecLinker == InitLinker /\ [][NextLinker]_vars

-----------------------------------------------------------------------------
(* Claims about Preferences.                                               *)

\* C3: an expansion runs at most 10 substitution rounds; every round before
\* the last one changed the map, and an expansion that stops before the
\* tenth round stops on a round that left the map unchanged, so that its
\* result is a fixpoint of the round.
ExpansionBounded ==
    expanded.some =>
        /\ rounds \in 1..10
        /\ changed >= rounds - 1
        /\ rounds < 10 =>
              /\ changed = rounds - 1
              /\ ExpandRound(expanded.val) = expanded.val

\* The bound is reached: ten rounds, each of which changed the map.
BoundReached == expanded.some /\ rounds = 10 /\ changed = 10

\* C4 (as stated): expanding the expanded view of any map returns it
\* unchanged.
ExpansionIdempotent ==
    expanded.some => ExpandLoop(expanded.val).prefs = expanded.val

\* C4 (amended): when the expansion of a map ended on a round that left the
\* map unchanged, expanding the expanded view returns it unchanged.
ExpansionIdempotentAtFixpoint ==
    (expanded.some /\ (rounds < 10 \/ changed < rounds)) =>
        ExpandLoop(expanded.val).prefs = expanded.val

\* An expansion that changed the map twice and then reached its fixpoint.
FixpointReached == expanded.some /\ rounds = 3 /\ changed = 2

\* C5: the cached expansion is absent or is the expansion of the current
\* unexpanded map, and get(key) returns the value of key in that expansion.
CacheCoherent ==
    LET e == ExpandLoop(unexpanded).prefs
    IN /\ expanded.some => expanded.val = e
       /\ op = "get" =>
             ret = IF ret.key \in DOMAIN e
                   THEN [tag |-> "some", key |-> ret.key, val |-> e[ret.key]]
                   ELSE [tag |-> "none", key |-> ret.key]

\* A get after a set or unset that dropped a cached expansion, returning a
\* value that differs from the one in the dropped cache.
GetAfterMutation ==
    /\ op = "get"
    /\ stale.some
    /\ ret.tag = "some"
    /\ ret.key \in DOMAIN stale.val
    /\ stale.val[ret.key] # ret.val

\* C6: a value made of an identifier in doubled braces expands to the
\* identifier in single literal braces, whether or not the identifier is a
\* key of the map.
EscapedBracesStayLiteral ==
    expanded.some =>
        \A key \in DOMAIN unexpanded : \A id \in Identifiers :
            unexpanded[key] = Escaped(id) =>
                expanded.val[key] = <<"{">> \o id \o <<"}">>

\* C7: parse returns, for every text, a store in which every line has its
\* entry: the key is the text before the first "=" of the line, the value is
\* the rest of the line after that "=", and the last line of a key wins.
ParseKeepsEveryLine ==
    op = "parse" =>
        LET ls == Lines(text)
            Eq(i) == FirstIdx(ls[i], 1, LAMBDA c : c = "=")
            KeyOf(i) == SubSeq(ls[i], 1, Eq(i) - 1)
            ValueOf(i) == SubSeq(ls[i], Eq(i) + 1, Len(ls[i]))
        IN /\ ret = Unit
           /\ DOMAIN unexpanded = {KeyOf(i) : i \in 1..Len(ls)}
           /\ \A i \in 1..Len(ls) :
                 (\A j \in (i + 1)..Len(ls) : KeyOf(j) # KeyOf(i)) =>
                     unexpanded[KeyOf(i)] = ValueOf(i)

-----------------------------------------------------------------------------
(* Claims about Recipe and split_command_line.                             *)

\* C8: Recipe substitution replaces each %word of the pattern: by the field
\* of the params for the five names source_file, object_file, object_files,
\* archive_file and includes (empty when unset), by the bare word for any
\* other word, which does not fail; "%source_file -> %object_file" with
\* source_file = a.c and object_file = a.o gives "a.c -> a.o", and
\* "%unknown_flag" gives "unknown_flag".
SubstituteReplacesWords ==
    rop = "substitute" =>
        LET Known == {SourceFileName, ObjectFileName, ObjectFilesName,
                      ArchiveFileName, IncludesName}
            Field(w) == CASE w = SourceFileName -> params.source_file
                          [] w = ObjectFileName -> params.object_file
                          [] w = ObjectFilesName -> params.object_files
                          [] w = ArchiveFileName -> params.archive_file
                          [] w = IncludesName -> params.includes
                          [] OTHER -> w
            Expected[i \in 0..Len(written)] ==
                IF i = 0 THEN <<>>
                ELSE Expected[i - 1] \o (IF written[i].word THEN Field(written[i].text)
                                         ELSE written[i].text)
        IN /\ command_line = Expected[Len(written)]
           /\ (\E i \in 1..Len(written) :
                   written[i].word /\ written[i].text \notin Known) => cmd # Panic
           /\ (/\ written = <<Word(SourceFileName), Lit(Arrow), Word(ObjectFileName)>>
               /\ params = ExampleParams)
                  => command_line = <<"a", ".", "c", " ", "-", ">", " ", "a", ".", "o">>
           /\ written = <<Word(UnknownFlag)>>
                  => /\ command_line = UnknownFlag
                     /\ cmd = [tag |-> "ok", command |-> UnknownFlag, args |-> <<>>]

\* A substitution of a pattern with a known name and an unknown word.
SubstitutedKnownAndUnknown ==
    /\ rop = "substitute"
    /\ written = <<Word(ObjectFilesName), Lit(<<" ">>), Word(UnknownFlag)>>
    /\ params = FullParams
    /\ command_line = <<"b", ".", "o", " ", "c", ".", "o", " ",
                        "u", "n", "k", "n", "o", "w", "n", "_", "f", "l", "a", "g">>

\* C9: split_command_line cuts the line into tokens from left to right:
\* white space between tokens is skipped; a token that starts with a quote
\* that is closed later is the text between the two quotes, inner spaces
\* kept; any other token is the run of non-space characters up to the next
\* white space or the end of the line.  The first token is the command, the
\* others are the arguments in order; foo "bar baz" 'qux' gives foo and
\* [bar baz, qux].
SplitTokenizes ==
    rop = "split" =>
        LET s == command_line
            n == Len(command_line)
            Close(q) == IF \E j \in (q + 1)..n : s[j] = s[q]
                        THEN Min({j \in (q + 1)..n : s[j] = s[q]}) ELSE 0
            RunEnd(p) == IF \E j \in p..n : IsSpace(s[j])
                         THEN Min({j \in p..n : IsSpace(s[j])}) - 1 ELSE n
            Tokens[p \in 1..(n + 1)] ==
                IF p > n THEN <<>>
                ELSE IF IsSpace(s[p]) THEN Tokens[p + 1]
                ELSE IF s[p] \in {"'", "\""} /\ Close(p) # 0
                THEN <<SubSeq(s, p + 1, Close(p) - 1)>> \o Tokens[Close(p) + 1]
                ELSE <<SubSeq(s, p, RunEnd(p))>> \o Tokens[RunEnd(p) + 1]
        IN /\ Tokens[1] # <<>> =>
                 cmd = [tag |-> "ok", command |-> Head(Tokens[1]), args |-> Tail(Tokens[1])]
           /\ s = ExampleLine =>
                 cmd = [tag |-> "ok", command |-> <<"f", "o", "o">>,
                        args |-> << <<"b", "a", "r", " ", "b", "a", "z">>,
                                    <<"q", "u", "x">> >>]

\* The example line has been split: a plain token, a double-quoted token
\* with an inner space and a single-quoted token.
SplitExample ==
    /\ rop = "split"
    /\ command_line = ExampleLine
    /\ cmd.tag = "ok"
    /\ Len(cmd.args) = 2

\* C10: when the process started by run exits with a status other than
\* zero, the last thing run writes is the whole captured stderr, to stderr,
\* and run returns an error whose message holds the file name of the
\* command and the exit code in decimal, or <none> when the process was
\* ended by a signal; when the process exits with zero, run returns the
\* output as it was captured.
RunRelaysThenFails ==
    (rop = "run" /\ runRet # Panic /\ output.started) =>
        LET c == cmd.command
            slashes == {j \in 1..Len(c) : c[j] = "/"}
            name == IF slashes = {} THEN c
                    ELSE SubSeq(c, (CHOOSE j \in slashes : \A k \in slashes : k <= j) + 1, Len(c))
            code == CASE output.status = None -> <<"<", "n", "o", "n", "e", ">">>
                      [] output.status = Some(1) -> <<"1">>
                      [] output.status = Some(101) -> <<"1", "0", "1">>
                      [] output.status = Some(-1) -> <<"-", "1">>
                      [] OTHER -> Decimal(output.status.val)
        IN IF output.status = Some(0)
           THEN runRet = [tag |-> "ok", output |-> output]
           ELSE /\ events[Len(events)] = [stream |-> "stderr", bytes |-> output.stderr]
                /\ \A i \in 1..(Len(events) - 1) : events[i].stream # "stderr"
                /\ runRet.tag = "err"
                /\ runRet.msg = <<"P", "r", "o", "c", "e", "s", "s", " ", "'">>
                                   \o name
                                   \o <<"'", " ", "e", "x", "i", "t", "e", "d", " ",
                                        "w", "i", "t", "h", " ", "c", "o", "d", "e", " ">>
                                   \o code

\* A command given with a directory was ended by a signal after it wrote two
\* lines to stderr.
RunKilledBySignal ==
    /\ rop = "run"
    /\ runRet.tag = "err"
    /\ output.started
    /\ output.status = None
    /\ Len(Lines(output.stderr)) = 2
    /\ cmd.command = <<"b", "i", "n", "/", "a", "r">>

-----------------------------------------------------------------------------
(* Claims about Builder::build.                                            *)

\* C1: when build returns Ok, the calls it made are, for the sources in the
\* order of their registration, one compile of the source followed by one
\* archive of the object that compile was given, and nothing else: 2n calls
\* for n sources, one compile then one archive for a single source; while
\* build runs, the calls made so far are the first calls of that sequence.
BuildInOrder ==
    /\ pc \in {"compile", "archive"} =>
          Len(log) = 2 * (idx - 1) + (IF pc = "archive" THEN 1 ELSE 0)
    /\ buildRet = Ok => Len(log) = 2 * Len(sources)
    /\ (pc \in {"compile", "archive"} \/ buildRet = Ok) =>
          \A k \in 1..Len(log) :
              /\ log[k].result = "ok"
              /\ k % 2 = 1 => /\ log[k].call.step = "compile"
                              /\ log[k].call.source = sources[(k + 1) \div 2]
              /\ k % 2 = 0 => /\ log[k].call.step = "archive"
                              /\ log[k].call.object = log[k - 1].call.object

\* A build of three sources, two of them with the same file stem, returned
\* Ok.
BuiltThree ==
    /\ buildRet = Ok
    /\ Len(sources) = 3
    /\ Len(log) = 6
    /\ sources[1] # sources[2]

\* C2: a compile or archive call that fails is the last call build makes
\* and build returns its failure: no later source is compiled or archived,
\* the call is not made again, and no directive is printed; the directives
\* are printed only by a build that returns Ok.
BuildStopsAtFailure ==
    /\ \A k \in 1..Len(log) :
          log[k].result = "err" =>
              /\ k = Len(log)
              /\ pc = "done"
              /\ buildRet = [tag |-> "err", from |-> log[k].call]
              /\ directives = <<>>
    /\ buildRet.tag = "err" => log # <<>> /\ log[Len(log)].result = "err"
    /\ directives # <<>> => buildRet = Ok

\* A build of three sources failed at the first source: at its compile, or
\* at its archive.
BuildFailedAtFirst ==
    /\ buildRet.tag = "err"
    /\ Len(sources) = 3
    /\ Len(log) <= 2

-----------------------------------------------------------------------------
(* Claims about get_system_includes.                                       *)

\* C11: get_system_includes returns, in order, the lines of the probe's
\* stderr that follow the first line beginning with `#include <...>` and
\* begin with a space, each without that one space, up to the first
\* following line that does not begin with a space; it returns the empty
\* list when no line begins with the marker and when the probe cannot be
\* run.
IncludesFollowMarker ==
    iop = "get_system_includes" =>
        LET IsMarker(i) == Len(probe_lines[i]) >= 14
                           /\ SubSeq(probe_lines[i], 1, 14) = IncludeMarker
            Indented(i) == probe_lines[i] # <<>> /\ probe_lines[i][1] = " "
            markers == {i \in 1..Len(probe_lines) : IsMarker(i)}
        IN IF ~probe.started \/ markers = {}
           THEN system_includes = <<>>
           ELSE LET m == Min(markers)
                    n == CHOOSE k \in 0..(Len(probe_lines) - m) :
                            /\ \A i \in 1..k : Indented(m + i)
                            /\ m + k + 1 <= Len(probe_lines) => ~Indented(m + k + 1)
                IN /\ Len(system_includes) = n
                   /\ \A i \in 1..n :
                        <<" ">> \o system_includes[i] = probe_lines[m + i]

\* A probe whose stderr holds the marker, two indented lines of which the
\* second has two spaces, a closing line and one more indented line.
IncludesCollected ==
    /\ iop = "get_system_includes"
    /\ probe.started
    /\ probe_lines = << IncludeMarker \o <<" ", "s">>, <<" ", "/", "a">>,
                        <<" ", " ", "c">>, <<"E", "n", "d">> >>
    /\ system_includes = << <<"/", "a">>, <<" ", "c">> >>

-----------------------------------------------------------------------------
(* Claims about create_target_spec.                                        *)

\* C12: create_target_spec maps avr to avr-atmel-none, samd to
\* thumbv6m-none-eabi, and sam to thumbv6m-none-eabi, thumbv7m-none-eabi or
\* thumbv7em-none-eabi by the exact CPU; for a sam CPU outside the table it
\* fails with an error naming the CPU and for an architecture outside the
\* table with an error naming the architecture, and in both cases rustc is
\* not queried and no file of the targets directory is created or changed.
UnsupportedFailsUnqueried ==
    [][ calls' = calls + 1 =>
          LET call == procs'[1]
              V6 == {<<"c", "o", "r", "t", "e", "x", "-", "m", "0">>, <<"c", "o", "r", "t", "e", "x", "-", "m", "0", "p", "l", "u", "s">>, <<"c", "o", "r", "t", "e", "x", "-", "m", "1">>}
              V7em == {<<"c", "o", "r", "t", "e", "x", "-", "m", "4">>, <<"c", "o", "r", "t", "e", "x", "-", "m", "7">>}
              triple ==
                  IF call.arch = <<"a", "v", "r">> THEN <<"a", "v", "r", "-", "a", "t", "m", "e", "l", "-", "n", "o", "n", "e">>
                  ELSE IF call.arch = <<"s", "a", "m", "d">> \/ (call.arch = <<"s", "a", "m">> /\ call.cpu \in V6)
                  THEN <<"t", "h", "u", "m", "b", "v", "6", "m", "-", "n", "o", "n", "e", "-", "e", "a", "b", "i">>
                  ELSE IF call.arch = <<"s", "a", "m">> /\ call.cpu = <<"c", "o", "r", "t", "e", "x", "-", "m", "3">>
                  THEN <<"t", "h", "u", "m", "b", "v", "7", "m", "-", "n", "o", "n", "e", "-", "e", "a", "b", "i">>
                  ELSE IF call.arch = <<"s", "a", "m">> /\ call.cpu \in V7em
                  THEN <<"t", "h", "u", "m", "b", "v", "7", "e", "m", "-", "n", "o", "n", "e", "-", "e", "a", "b", "i">>
                  ELSE <<>>
              Unchanged == queries' = queries /\ files' = files
          IN /\ call.pc = "done"
             /\ triple # <<>> =>
                  /\ call.ret.tag = "ok" => call.ret.val[1] = triple
                  /\ queries' # queries => queries' = Append(queries, triple)
                  /\ call.ret.tag = "err" => call.ret.kind # "Msg" \/ call.ret.msg[1] # "U"
             /\ triple = <<>> /\ call.arch = <<"s", "a", "m">> =>
                  /\ call.ret = Err(<<"U", "n", "s", "u", "p", "p", "o", "r", "t", "e", "d", " ", "S", "A", "M", " ", "C", "P", "U", ":", " ">> \o call.cpu)
                  /\ Unchanged
             /\ triple = <<>> /\ call.arch # <<"s", "a", "m">> =>
                  /\ call.ret = Err(<<"U", "n", "s", "u", "p", "p", "o", "r", "t", "e", "d", " ", "a", "r", "c", "h", "i", "t", "e", "c", "t", "u", "r", "e", ":", " ">> \o call.arch)
                  /\ Unchanged ]_vars

\* A call for an unsupported sam CPU that failed after an earlier call had
\* queried rustc and written a descriptor.
UnsupportedCpuAfterBuild ==
    /\ calls = 2
    /\ procs[1].ret = Err(<<"U", "n", "s", "u", "p", "p", "o", "r", "t", "e", "d", " ", "S", "A", "M", " ", "C", "P", "U", ":", " ", "c", "o", "r", "t", "e", "x", "-", "a", "9">>)
    /\ Len(queries) = 1
    /\ DOMAIN files # {}

\* C13: a call of create_target_spec that finds the descriptor file of the
\* board's cache key in place does not query rustc and leaves the targets
\* directory as it is; so a second call for the board of a call that
\* succeeded queries nothing and changes nothing, and two calls in sequence
\* for one board on an empty targets directory make one query in all.
CachedDescriptorKept ==
    [][ calls' = calls + 1 =>
          LET call == procs'[1]
              before == procs[1]
              Unchanged == queries' = queries /\ files' = files
          IN /\ call.spec_name # <<>> /\ SpecPath(call.spec_name) \in DOMAIN files =>
                  /\ Unchanged
                  /\ call.ret = OkVal(<<call.target, call.spec_name>>)
             /\ before.ret.tag = "ok" /\ call.spec_name # <<>>
                /\ call.board = before.board =>
                  /\ Unchanged
                  /\ calls = 1 => Len(queries') = 1 ]_vars

\* The second of two calls for one board: it found the file the first call
\* had written after the only query, and synthesized nothing.
SecondCallCached ==
    /\ calls = 2
    /\ procs[1].ret.tag = "ok"
    /\ procs[1].bytes = <<>>
    /\ Len(queries) = 1
    /\ DOMAIN files = {SpecPath(procs[1].spec_name)}
    /\ Len(files[SpecPath(procs[1].spec_name)]) > 2

\* C14: when two builds of one board with the same inputs have both
\* returned from create_target_spec without an error, however their tests of
\* the file, queries of rustc, creations and writes were interleaved, the
\* targets directory holds what one build running alone leaves there; and
\* while they run, every position of the file that has been written holds
\* what the build running alone writes there.
RaceIsBenign ==
    \E alone \in {TargetRun([proc |-> Entered(procs[1].arch, procs[1].cpu, procs[1].board,
                                              procs[1].linker_options),
                             files |-> <<>>, queries |-> <<>>],
                            rustc, 99).files} :
        /\ (\A p \in Procs : procs[p].pc = "done" /\ procs[p].ret.tag = "ok") =>
                files = alone
        /\ \A path \in DOMAIN files :
                /\ path \in DOMAIN alone
                /\ Len(files[path]) <= Len(alone[path])
                /\ \A i \in 1..Len(files[path]) :
                        files[path][i] \in {Hole, alone[path][i]}

\* Both builds missed the file, queried rustc, created the file and wrote
\* all of the descriptor.
BothBuildsWrote ==
    /\ \A p \in Procs : /\ procs[p].pc = "done"
                        /\ procs[p].ret.tag = "ok"
                        /\ procs[p].pos = Len(procs[p].bytes)
                        /\ procs[p].pos > 2
    /\ Len(queries) = 2

-----------------------------------------------------------------------------
(* Claims about BoardInfo.                                                 *)

\* C15: for every text from_fqbn accepts, from_fqbn of what Display writes
\* for the parsed BoardInfo returns a BoardInfo with the same vendor,
\* architecture, board and parameters, whatever the order of the
\* parameters in the text; and a:b:c:k1=v1,k2=v2 parses to vendor a,
\* architecture b, board c and the parameters k1 = v1, k2 = v2.
FqbnRoundTrips ==
    /\ bop = "from_fqbn" /\ rendered.some =>
        /\ parsed.tag = "ok"
        /\ parsed.val.vendor = first_parsed.val.vendor
        /\ parsed.val.arch = first_parsed.val.arch
        /\ parsed.val.board = first_parsed.val.board
        /\ parsed.val.params = first_parsed.val.params
    /\ bop = "from_fqbn" /\ ~rendered.some /\ fqbn = ExampleFqbn =>
        /\ parsed.tag = "ok"
        /\ parsed.val.vendor = <<"a">>
        /\ parsed.val.arch = <<"b">>
        /\ parsed.val.board = <<"c">>
        /\ DOMAIN parsed.val.params = {<<"k", "1">>, <<"k", "2">>}
        /\ parsed.val.params[<<"k", "1">>] = <<"v", "1">>
        /\ parsed.val.params[<<"k", "2">>] = <<"v", "2">>

\* C16: from_fqbn returns an error, and no BoardInfo, for every text that is
\* not vendor:arch:board followed or not by a colon and a comma-separated
\* list of key=value entries, every part being a non-empty text without
\* white space, colon, comma or equals sign; it never panics.
MalformedFqbnRejected ==
    bop = "from_fqbn" /\ ~rendered.some =>
        LET Part(t) == t # <<>> /\ \A i \in 1..Len(t) : t[i] \notin {":", ",", "=", " "}
            Entry(t) == LET kv == SplitOn(t, "=")
                        IN Len(kv) = 2 /\ Part(kv[1]) /\ Part(kv[2])
            parts == SplitOn(fqbn, ":")
            WellFormed ==
                /\ Len(parts) \in {3, 4}
                /\ \A i \in 1..3 : Part(parts[i])
                /\ Len(parts) = 4 =>
                      LET entries == SplitOn(parts[4], ",")
                      IN \A i \in 1..Len(entries) : Entry(entries[i])
        IN /\ parsed # Panic
           /\ ~WellFormed => parsed = InvalidFqbn

-----------------------------------------------------------------------------
(* Claims about Config::serialize.                                         *)

\* C17: when one of build.core, build.board, build.core.path,
\* build.variant.path, recipe.c.o.pattern, recipe.cpp.o.pattern,
\* recipe.S.o.pattern and recipe.ar.pattern is absent from the preferences,
\* Config::serialize returns an error whose message names an absent key,
\* and no document.
MissingKeyNamed ==
    sop = "serialize" =>
        LET required == {<<"b", "u", "i", "l", "d", ".", "c", "o", "r", "e">>, <<"b", "u", "i", "l", "d", ".", "b", "o", "a", "r", "d">>, <<"b", "u", "i", "l", "d", ".", "c", "o", "r", "e", ".", "p", "a", "t", "h">>,
                         <<"b", "u", "i", "l", "d", ".", "v", "a", "r", "i", "a", "n", "t", ".", "p", "a", "t", "h">>, <<"r", "e", "c", "i", "p", "e", ".", "c", ".", "o", ".", "p", "a", "t", "t", "e", "r", "n">>,
                         <<"r", "e", "c", "i", "p", "e", ".", "c", "p", "p", ".", "o", ".", "p", "a", "t", "t", "e", "r", "n">>, <<"r", "e", "c", "i", "p", "e", ".", "S", ".", "o", ".", "p", "a", "t", "t", "e", "r", "n">>,
                         <<"r", "e", "c", "i", "p", "e", ".", "a", "r", ".", "p", "a", "t", "t", "e", "r", "n">>}
            absent == required \ DOMAIN given
        IN absent # {} =>
              /\ document.tag = "err"
              /\ \E key \in absent : Contains(document.msg, <<"'">> \o key \o <<"'">>)

-----------------------------------------------------------------------------
(* Claims about the rounds of the expansion.                               *)

-----------------------------------------------------------------------------
(* Claims about the synthesized descriptor.                                *)

\* C19: the descriptor a call of create_target_spec has written is what
\* rustc printed with these changes besides the two argument lists:
\* is-builtin is false, linker is the command of the linker recipe,
\* linker-is-gnu is true, the default libraries are disabled
\* (no-default-libraries is true) and cpu is the CPU given.
DescriptorFieldsSet ==
    (/\ procs[1].pc = "done"
     /\ procs[1].ret.tag = "ok"
     /\ procs[1].bytes # <<>>) =>
        LET content == files[SpecPath(procs[1].spec_name)]
            template == rustc[procs[1].target].stdout
            Member(key) == {content[i].v : i \in {j \in 1..Len(content) : content[j].k = key}}
            changed_keys == {"is-builtin", "linker", "linker-is-gnu",
                             "no-default-libraries", "cpu"}
            lists == {"pre-link-args", "late-link-args"}
        IN /\ Member("is-builtin") = {VBool(FALSE)}
           /\ Member("linker") = {VString(procs[1].linker_options.command)}
           /\ Member("linker-is-gnu") = {VBool(TRUE)}
           /\ Member("no-default-libraries") = {VBool(TRUE)}
           /\ Member("cpu") = {VString(procs[1].cpu)}
           /\ \A key \in DOMAIN template \ (changed_keys \cup lists) :
                  Member(key) = {template[key]}
           /\ \A i \in 2..(Len(content) - 1) :
                  content[i].k \in DOMAIN template \cup changed_keys \cup lists

\* C20: in the descriptor a call of create_target_spec has written,
\* pre-link-args is the list rustc printed followed by -specs=<value> for
\* each specs token, each platform flag as it is, -T<path> when there is a
\* linker script and -L<path> for each library search directory, in this
\* order, and late-link-args is the list rustc printed followed by
\* -l<name> for each library.
LinkArgsAppended ==
    (/\ procs[1].pc = "done"
     /\ procs[1].ret.tag = "ok"
     /\ procs[1].bytes # <<>>) =>
        LET content == files[SpecPath(procs[1].spec_name)]
            template == rustc[procs[1].target].stdout
            options == procs[1].linker_options
            Member(key) == {content[i].v : i \in {j \in 1..Len(content) : content[j].k = key}}
            Printed(key) == IF key \in DOMAIN template /\ template[key].t = "array"
                            THEN template[key].a ELSE <<>>
            Prefixed(prefix, ss) == [i \in 1..Len(ss) |-> prefix \o ss[i]]
        IN /\ Member("pre-link-args") =
                {[t |-> "array", s |-> <<>>,
                  a |-> Printed("pre-link-args")
                        \o Prefixed(<<"-", "s", "p", "e", "c", "s", "=">>, options.specs)
                        \o options.platform_options
                        \o (IF options.script.some
                            THEN Prefixed(<<"-", "T">>, <<options.script.val>>) ELSE <<>>)
                        \o Prefixed(<<"-", "L">>, options.library_search_path)]}
           /\ Member("late-link-args") =
                {[t |-> "array", s |-> <<>>,
                  a |-> Printed("late-link-args") \o Prefixed(<<"-", "l">>, options.libraries)]}

\* A descriptor written for the ARM linker recipe from a template with both
\* lists.
ArmLinkArgsWritten ==
    /\ procs[1].pc = "done"
    /\ procs[1].ret.tag = "ok"
    /\ procs[1].bytes # <<>>
    /\ \E i \in 1..Len(files[SpecPath(procs[1].spec_name)]) :
          LET token == files[SpecPath(procs[1].spec_name)][i]
          IN /\ token.k = "pre-link-args"
             /\ token.v.a = << <<"-", "W", "l", ",", "-", "z">>, <<"-", "s", "p", "e", "c", "s", "=", "n", "a", "n", "o", ".", "s", "p", "e", "c", "s">>, <<"-", "s", "p", "e", "c", "s", "=", "n", "o", "s", "y", "s", ".", "s", "p", "e", "c", "s">>,
                               <<"-", "m", "c", "p", "u", "=", "c", "o", "r", "t", "e", "x", "-", "m", "3">>, <<"-", "m", "t", "h", "u", "m", "b">>, <<"-", "T", "f", "l", "a", "s", "h", ".", "l", "d">>,
                               <<"-", "L", "/", "v">>, <<"-", "L", "/", "w">> >>
    /\ \E i \in 1..Len(files[SpecPath(procs[1].spec_name)]) :
          LET token == files[SpecPath(procs[1].spec_name)][i]
          IN /\ token.k = "late-link-args"
             /\ token.v.a = << <<"-", "l", "g", "c", "c">>, <<"-", "l", "m">>, <<"-", "l", "g", "c", "c">> >>


-----------------------------------------------------------------------------
(* Claims about parse_linker_options.                                      *)

\* C21: parse_linker_options, scanning the argument tokens of the linker
\* recipe from left to right, where an option in its detached form takes the
\* following token as its value, returns: as specs the values of every
\* --specs, -specs (detached) and --specs=, -specs= (attached), in order; as
\* script the value of the last -T, detached or attached, and none when
\* there is no -T; as search paths the values of -L, detached or attached,
\* that name an existing directory, in order; as libraries the values of -l,
\* detached or attached, in order; as platform flags every token that
\* begins with -m, verbatim and in order.  A token that is none of these
\* contributes to no field.
LinkerOptionsAsScanned ==
    lop = "parse" /\ parsed_options # Panic =>
        LET args == Tail(Parts(linker_recipe))
            n == Len(args)
            \* the token i is the value of the detached option before it
            Value[i \in 0..n] ==
                /\ i > 1
                /\ args[i - 1] \in {<<"-", "-", "s", "p", "e", "c", "s">>, <<"-", "s", "p", "e", "c", "s">>, <<"-", "T">>, <<"-", "L">>, <<"-", "l">>}
                /\ ~Value[i - 1]
            Rest(i, k) == SubSeq(args[i], k + 1, Len(args[i]))
            Begins(i, prefix) ==
                /\ Len(args[i]) >= Len(prefix)
                /\ \A k \in 1..Len(prefix) : args[i][k] = prefix[k]
            Detached(i, opts) == IF args[i] \in opts THEN <<args[i + 1]>> ELSE <<>>
            Attached(i, prefix) ==
                IF Begins(i, prefix) /\ Len(args[i]) > Len(prefix)
                THEN <<Rest(i, Len(prefix))>> ELSE <<>>
            \* what the tokens that are not such a value contribute, in order
            Collect(At(_)) ==
                LET Upto[k \in 0..n] ==
                        IF k = 0 THEN <<>>
                        ELSE Upto[k - 1] \o (IF Value[k] THEN <<>> ELSE At(k))
                IN Upto[n]
            SpecsAt(i) ==
                Detached(i, {<<"-", "-", "s", "p", "e", "c", "s">>, <<"-", "s", "p", "e", "c", "s">>})
                    \o (IF Begins(i, <<"-", "-", "s", "p", "e", "c", "s", "=">>) THEN <<Rest(i, 8)>> ELSE <<>>)
                    \o (IF Begins(i, <<"-", "s", "p", "e", "c", "s", "=">>) THEN <<Rest(i, 7)>> ELSE <<>>)
            ScriptAt(i) == Detached(i, {<<"-", "T">>}) \o Attached(i, <<"-", "T">>)
            PathAt(i) == Detached(i, {<<"-", "L">>}) \o Attached(i, <<"-", "L">>)
            LibraryAt(i) == Detached(i, {<<"-", "l">>}) \o Attached(i, <<"-", "l">>)
            FlagAt(i) == IF Begins(i, <<"-", "m">>) THEN <<args[i]>> ELSE <<>>
            scripts == Collect(ScriptAt)
        IN /\ parsed_options.val.command = Head(Parts(linker_recipe))
           /\ parsed_options.val.specs = Collect(SpecsAt)
           /\ parsed_options.val.script =
                  IF scripts = <<>> THEN None ELSE Some(scripts[Len(scripts)])
           /\ parsed_options.val.library_search_path =
                  SelectSeq(Collect(PathAt), LAMBDA path : path \in is_dir)
           /\ parsed_options.val.libraries = Collect(LibraryAt)
           /\ parsed_options.val.platform_options = Collect(FlagAt)

\* The AVR recipe has been parsed where d is a directory and x is not.
AvrCombineParsed ==
    /\ lop = "parse"
    /\ linker_recipe = AvrCombine
    /\ is_dir = {<<"d">>}
    /\ parsed_options =
           [tag |-> "ok",
            val |-> [command |-> <<"a", "v", "r", "-", "g", "c", "c">>,
                     script |-> Some(<<"t">>),
                     specs |-> <<<<"n">>, <<"a">>>>,
                     library_search_path |-> <<<<"d">>>>,
                     libraries |-> <<<<"m">>, <<"c">>>>,
                     platform_options |-> <<<<"-", "m", "m", "c", "u", "=", "a", "t", "m", "e", "g", "a", "3", "2", "8", "p">>>>]]


-----------------------------------------------------------------------------
(* Claims about the descriptor cache.                                      *)

\* C22: a build that finds the descriptor file of its cache key in place and
\* returns the triple and the cache key without synthesizing returns while
\* that file holds a complete descriptor, from the opening to the closing
\* brace without a gap, also while the other build of the board is creating
\* and writing the file.
CachedFileComplete ==
    [][ \A p \in Procs :
          /\ procs[p].pc = "check"
          /\ procs'[p].pc = "done"
          /\ procs'[p].ret.tag = "ok"
          => LET path == SpecPath(procs'[p].spec_name)
                 content == files'[path]
             IN /\ path \in DOMAIN files'
                /\ Len(content) >= 2
                /\ content[1] = Token("{", Null)
                /\ content[Len(content)] = Token("}", Null)
                /\ \A i \in 1..Len(content) : content[i] # Hole ]_vars


\* C23: after calls of create_target_spec in sequence on one targets
\* directory, the complete descriptor stored under the cache key the latest
\* call returned has the CPU of that call as cpu, the command of its linker
\* recipe as linker, and the argument lists derived from its linker options.
DescriptorOfLatestCall ==
    (/\ procs[1].pc = "done"
     /\ procs[1].ret.tag = "ok") =>
        LET content == files[SpecPath(procs[1].ret.val[2])]
            template == rustc[procs[1].ret.val[1]].stdout
            Member(key) == {content[i].v : i \in {j \in 1..Len(content) : content[j].k = key}}
        IN Len(content) >= 2 /\ content[Len(content)] = Token("}", Null) =>
              /\ Member("cpu") = {VString(procs[1].cpu)}
              /\ Member("linker") = {VString(procs[1].linker_options.command)}
              /\ Member("pre-link-args") =
                    {VArray(PreLinkArgs(template, procs[1].linker_options))}
              /\ Member("late-link-args") =
                    {VArray(LateLinkArgs(template, procs[1].linker_options))}


-----------------------------------------------------------------------------
(* Claims about the object files and the recipes of a build.               *)

\* C24: within one build, two compile steps for different sources are given
\* different object files, so that the object file a compile step has
\* produced is not the target of the compile step of another source.
ObjectFilesDistinct ==
    \A i, j \in 1..Len(log) :
        (/\ i < j
         /\ log[i].call.step = "compile"
         /\ log[j].call.step = "compile"
         /\ log[i].result = "ok"
         /\ log[i].call.source # log[j].call.source)
        => log[i].call.object # log[j].call.object


\* C25: for every source registered on a Builder, by source or by
\* core_sources, Config::compile selects the C, the C++ or the assembler
\* recipe: no compile step of a build ends in the arm marked unreachable.
CompileSelectsRecipe ==
    \A i \in 1..Len(log) :
        log[i].call.step = "compile" =>
            /\ CompileRecipe(log[i].call.source) \in
                   {Some("c_compiler"), Some("cpp_compiler"), Some("assembler")}
            /\ log[i].result # "panic"

=============================================================================
